---------------------------- MODULE Spec2Model ----------------------------
(***************************************************************************)
(* A model of the SARA_BACK risk dashboard.                                *)
(*                                                                         *)
(*   Spec       the RiskEngine object of app/risk_engine.py: its           *)
(*              historical_data and one action per public method.          *)
(*   SpecLevel  get_risk_level of app/main.py applied to scores in         *)
(*              [0,100].                                                   *)
(*   SpecAgg    calculate_comprehensive_risk of app/main.py applied to     *)
(*              seven per-category assessments.                            *)
(*   SpecDash   the three dashboard endpoints of app/main.py, one action   *)
(*              per handler, and the data_cache they share.                *)
(*   SpecAdvice the _get_*_basic_needs helpers of the engine applied to    *)
(*              any score.                                                 *)
(*   SpecConfidence  the engine's methods and the aggregation, for the     *)
(*              confidences they report.                                   *)
(*   SpecFresh  data_cache with the time of every write, the clock and the *)
(*              handlers that read the cache.                              *)
(*   SpecRefresh, SpecRefreshFair  refresh_all_data gathering its          *)
(*              refresh_location_data tasks.                               *)
(*   SpecAlerts get_location_alerts and the season tables.                 *)
(*   SpecRoutes the routes in registration order and the two listings of a *)
(*              province's municipalities.                                 *)
(*                                                                         *)
(* Numbers.  Python floats are modelled exactly.  A metric value, a        *)
(* category score and a confidence are integers counting hundredths        *)
(* (12.5 mm is 1250, confidence 0.85 is 85).  A score before rounding is a *)
(* fraction [n, d] with d > 0, so that x / 150 or x * 1.2 loses nothing;   *)
(* round() is round-half-to-even on that exact value.  The overall score   *)
(* calculate_comprehensive_risk reports is round(x), a plain integer.      *)
(***************************************************************************)
EXTENDS Integers, Sequences, FiniteSets, TLC

VARIABLES
    historical_data,  \* RiskEngine.historical_data: series name -> sequence
    last,             \* the call made last: [op, args, ret]
    first,            \* an engine call made before any update, kept to compare
    lvl,              \* SpecLevel: two applications of get_risk_level
    agg,              \* SpecAgg: [risks, ret] of calculate_comprehensive_risk
    data_cache,       \* SpecDash: the global data_cache of app/main.py
    resp,             \* SpecDash: the response to the request served last
    now,              \* SpecFresh: datetime.utcnow(), in ticks
    timed_cache,      \* SpecFresh, SpecRefresh: data_cache with write times
    tasks,            \* SpecRefresh: the refresh tasks being gathered
    served            \* SpecFresh: what get_nasa_data_for_location served last

vars == <<historical_data, last, first, lvl, agg, data_cache, resp,
          now, timed_cache, tasks, served>>

engineVars == <<historical_data, last, first>>
levelVars == <<lvl>>
aggVars == <<agg>>
dashVars == <<data_cache, resp>>
cacheVars == <<now, timed_cache, tasks, served>>

(***************************************************************************)
(* Bounds of the model.                                                    *)
(***************************************************************************)
\* the longest history update_historical_data is followed to
MaxHist == 2
\* the clock runs from 0 to MaxTime ticks of 15 minutes
MaxTime == 4
\* refresh_all_data is followed through the first MaxProvinces entries of
\* provinces_to_refresh
MaxProvinces == 2
\* get_risk_level is applied to every multiple of 1/ScoreSteps in [0,100]
ScoreSteps == 2

(***************************************************************************)
(* Arithmetic.                                                             *)
(***************************************************************************)
Abs(x) == IF x < 0 THEN -x ELSE x

\* the fraction n/d, d > 0
Q(n, d) == [n |-> n, d |-> d]

\* min(k, q) and max(k, q) for an integer k, as Python's min and max
QMin(k, q) == IF q.n < k * q.d THEN q ELSE Q(k * q.d, q.d)
QMax(k, q) == IF q.n > k * q.d THEN q ELSE Q(k * q.d, q.d)

\* q < k and q >= k for an integer k
QLt(q, k) == q.n < k * q.d
QGe(q, k) == q.n >= k * q.d

\* n/d rounded to the nearest integer, a tie to the even one: round()
RoundHalfEven(n, d) ==
    LET lo == n \div d
        rem == n - lo * d
    IN  IF 2 * rem < d THEN lo
        ELSE IF 2 * rem > d THEN lo + 1
        ELSE IF lo % 2 = 0 THEN lo ELSE lo + 1

\* round(q, 2), in hundredths
Round2(q) == RoundHalfEven(q.n * 100, q.d)

(***************************************************************************)
(* Python values and dict access.  A numeric field holds [t, v]: t is      *)
(* "num" for a number (v its value in hundredths; a count, fire_count or   *)
(* population, is held as it is), "str" for a value of the wrong type.  A  *)
(* key that is absent reads as Missing.                                    *)
(***************************************************************************)
Num(v) == [t |-> "num", v |-> v]
Str == [t |-> "str", v |-> 0]
Missing == [t |-> "missing", v |-> 0]

Get(d, k) == IF k \in DOMAIN d THEN d[k] ELSE Missing

\* What evaluating the subscripts and arithmetic over `fields`, in this
\* order, raises: d[k] raises KeyError for an absent key, arithmetic on a
\* value of the wrong type raises TypeError.
RECURSIVE FirstError(_)
FirstError(fields) ==
    IF fields = <<>> THEN "none"
    ELSE IF Head(fields).t = "missing" THEN "KeyError"
    ELSE IF Head(fields).t = "str" THEN "TypeError"
    ELSE FirstError(Tail(fields))

Raised(e) == [raised |-> e]

(***************************************************************************)
(* get_risk_level (app/main.py): the dashboard's five bands.               *)
(***************************************************************************)
\* get_risk_level with the LOW band open at 20
get_risk_level_Mut(score) ==
    IF QGe(score, 80) THEN "CRITICAL"
    ELSE IF QGe(score, 60) THEN "HIGH"
    ELSE IF QGe(score, 40) THEN "MEDIUM"
    ELSE IF ~QLt(score, 20) /\ ~(score.n = 20 * score.d) THEN "LOW"
    ELSE "VERY_LOW"

get_risk_level(score) ==
    IF QGe(score, 80) THEN "CRITICAL"
    ELSE IF QGe(score, 60) THEN "HIGH"
    ELSE IF QGe(score, 40) THEN "MEDIUM"
    ELSE IF QGe(score, 20) THEN "LOW"
    ELSE "VERY_LOW"

(***************************************************************************)
(* RiskEngine (app/risk_engine.py).                                        *)
(***************************************************************************)
Series == {"rainfall", "fires", "air_quality", "water_quality", "population",
           "drought_periods"}

initialize_historical_data == [k \in Series |-> <<>>]

\* update_historical_data with the rainfall series assigned, not appended to
update_historical_data_Mut(self, rainfall, fire, air, water, pop) ==
    [self EXCEPT !["rainfall"] = <<rainfall>>,
                 !["fires"] = Append(@, fire),
                 !["air_quality"] = Append(@, air),
                 !["water_quality"] = Append(@, water),
                 !["population"] = Append(@, pop)]

\* update_historical_data(rainfall, fire, air, water, pop): five appends
update_historical_data(self, rainfall, fire, air, water, pop) ==
    [self EXCEPT !["rainfall"] = Append(@, rainfall),
                 !["fires"] = Append(@, fire),
                 !["air_quality"] = Append(@, air),
                 !["water_quality"] = Append(@, water),
                 !["population"] = Append(@, pop)]

\* _score_to_level: the engine's four bands
score_to_level(score) ==
    IF QLt(score, 20) THEN "Low"
    ELSE IF QLt(score, 50) THEN "Moderate"
    ELSE IF QLt(score, 75) THEN "High"
    ELSE "Severe"

\* The advisory chain with its first branch taken from 80 on
AdvisoryBand_Mut(score) ==
    IF QGe(score, 80) THEN 3
    ELSE IF QGe(score, 50) THEN 2
    ELSE IF QGe(score, 20) THEN 1
    ELSE 0

\* The if/elif chain every advisory helper of the engine branches on:
\* score >= 75, score >= 50, score >= 20, else.
AdvisoryBand(score) ==
    IF QGe(score, 75) THEN 3
    ELSE IF QGe(score, 50) THEN 2
    ELSE IF QGe(score, 20) THEN 1
    ELSE 0

\* A helper that returns one fixed text (or list, or dict) per branch of the
\* chain: the text is named by the category's helper and the branch taken.
BandText(helper, score) == <<helper, AdvisoryBand(score)>>

\* dict.update: the entries of u replace or extend those of d
update(d, u) ==
    [k \in DOMAIN d \cup DOMAIN u |-> IF k \in DOMAIN u THEN u[k] ELSE d[k]]

\* _get_fire_basic_needs with no transportation entry in the initial dict
get_fire_basic_needs_Mut(score) ==
    LET needs ==
        [water |-> "Normal supply",
         energy |-> "Normal supply",
         hospitals |-> "Fully operational",
         food |-> "Normal availability",
         shelter |-> "Adequate"]
    IN  CASE AdvisoryBand(score) = 3 -> update(needs,
        [water |-> "CRITICAL - Firefighting priority, restrictions",
         energy |-> "WIDESPREAD OUTAGES - Grid damage",
         hospitals |-> "OVERLOADED - Respiratory emergencies",
         food |-> "DISRUPTED - Evacuation impacts",
         shelter |-> "EMERGENCY - Mass evacuations needed",
         transportation |-> "SEVERELY DISRUPTED - Road closures, poor visibility"])
          [] AdvisoryBand(score) = 2 -> update(needs,
        [water |-> "HIGH DEMAND - Firefighting needs",
         energy |-> "RISK OF OUTAGES - Grid instability",
         hospitals |-> "INCREASED LOAD - Respiratory cases",
         food |-> "STABLE - Prepare for disruptions",
         shelter |-> "PREPARE EVACUATION - At-risk areas",
         transportation |-> "SIGNIFICANT DISRUPTIONS - Smoke, closures"])
          [] AdvisoryBand(score) = 1 -> update(needs,
        [water |-> "ADEQUATE - Monitor supply",
         energy |-> "STABLE - Watch for outages",
         hospitals |-> "NORMAL - Prepare for smoke-related cases",
         food |-> "NORMAL - Maintain supplies",
         shelter |-> "SECURE - Monitor fire progression",
         transportation |-> "MINOR DISRUPTIONS - Some smoke impacts"])
          [] OTHER -> needs

\* _get_flood_basic_needs(score): needs, updated in the branch the score takes
get_flood_basic_needs(score) ==
    LET needs ==
        [water |-> "Normal supply",
         energy |-> "Normal supply",
         hospitals |-> "Fully operational",
         food |-> "Normal availability",
         shelter |-> "Adequate",
         transportation |-> "Normal operations"]
    IN  CASE AdvisoryBand(score) = 3 -> update(needs,
        [water |-> "EMERGENCY - Contaminated, need bottled water",
         energy |-> "CRITICAL - Widespread outages expected",
         hospitals |-> "OVERWHELMED - Emergency cases only",
         food |-> "SHORTAGE - Distribution disrupted",
         shelter |-> "URGENT - Evacuation shelters needed",
         transportation |-> "SEVERE DISRUPTION - Most routes impassable"])
          [] AdvisoryBand(score) = 2 -> update(needs,
        [water |-> "BOIL ADVISORY - Treatment required",
         energy |-> "PARTIAL OUTAGES - Some areas affected",
         hospitals |-> "INCREASED DEMAND - Prepare for emergencies",
         food |-> "LIMITED - Stock essential supplies",
         shelter |-> "AT RISK - Prepare evacuation plans",
         transportation |-> "MAJOR DISRUPTIONS - Many routes affected"])
          [] AdvisoryBand(score) = 1 -> update(needs,
        [water |-> "MONITOR QUALITY - Possible contamination",
         energy |-> "STABLE - Minor localized issues",
         hospitals |-> "NORMAL - Increased readiness",
         food |-> "ADEQUATE - Maintain supplies",
         shelter |-> "SECURE - Monitor conditions",
         transportation |-> "MINOR DISRUPTIONS - Some routes affected"])
          [] OTHER -> needs

\* _get_fire_basic_needs(score): needs, updated in the branch the score takes
get_fire_basic_needs(score) ==
    LET needs ==
        [water |-> "Normal supply",
         energy |-> "Normal supply",
         hospitals |-> "Fully operational",
         food |-> "Normal availability",
         shelter |-> "Adequate",
         transportation |-> "Normal operations"]
    IN  CASE AdvisoryBand(score) = 3 -> update(needs,
        [water |-> "CRITICAL - Firefighting priority, restrictions",
         energy |-> "WIDESPREAD OUTAGES - Grid damage",
         hospitals |-> "OVERLOADED - Respiratory emergencies",
         food |-> "DISRUPTED - Evacuation impacts",
         shelter |-> "EMERGENCY - Mass evacuations needed",
         transportation |-> "SEVERELY DISRUPTED - Road closures, poor visibility"])
          [] AdvisoryBand(score) = 2 -> update(needs,
        [water |-> "HIGH DEMAND - Firefighting needs",
         energy |-> "RISK OF OUTAGES - Grid instability",
         hospitals |-> "INCREASED LOAD - Respiratory cases",
         food |-> "STABLE - Prepare for disruptions",
         shelter |-> "PREPARE EVACUATION - At-risk areas",
         transportation |-> "SIGNIFICANT DISRUPTIONS - Smoke, closures"])
          [] AdvisoryBand(score) = 1 -> update(needs,
        [water |-> "ADEQUATE - Monitor supply",
         energy |-> "STABLE - Watch for outages",
         hospitals |-> "NORMAL - Prepare for smoke-related cases",
         food |-> "NORMAL - Maintain supplies",
         shelter |-> "SECURE - Monitor fire progression",
         transportation |-> "MINOR DISRUPTIONS - Some smoke impacts"])
          [] OTHER -> needs

\* _get_drought_basic_needs(score): needs, updated in the branch the score takes
get_drought_basic_needs(score) ==
    LET needs ==
        [water |-> "Normal supply",
         energy |-> "Normal supply",
         hospitals |-> "Fully operational",
         food |-> "Normal availability",
         shelter |-> "Adequate",
         transportation |-> "Normal operations"]
    IN  CASE AdvisoryBand(score) = 3 -> update(needs,
        [water |-> "CRITICAL SHORTAGE - Rationing implemented",
         energy |-> "REDUCED CAPACITY - Hydropower limited",
         hospitals |-> "STRESSED - Water-dependent services affected",
         food |-> "SHORTAGES - Crop failures, price increases",
         shelter |-> "AT RISK - Water scarcity issues",
         transportation |-> "IMPACTED - Dust storms, reduced visibility"])
          [] AdvisoryBand(score) = 2 -> update(needs,
        [water |-> "RESTRICTED - Conservation measures",
         energy |-> "STABLE - Some hydropower reduction",
         hospitals |-> "OPERATIONAL - Water conservation needed",
         food |-> "INCREASING PRICES - Supply chain stress",
         shelter |-> "ADEQUATE - Water efficiency important",
         transportation |-> "MINOR IMPACTS - Dust concerns"])
          [] AdvisoryBand(score) = 1 -> update(needs,
        [water |-> "ADEQUATE - Conservation encouraged",
         energy |-> "NORMAL - Monitor hydropower levels",
         hospitals |-> "NORMAL - Water efficiency practices",
         food |-> "STABLE - Monitor supplies",
         shelter |-> "SECURE - Water conservation",
         transportation |-> "NORMAL - Minimal impacts"])
          [] OTHER -> needs

\* _get_air_quality_basic_needs(score): needs, updated in the branch the score takes
get_air_quality_basic_needs(score) ==
    LET needs ==
        [water |-> "Normal supply",
         energy |-> "Normal supply",
         hospitals |-> "Fully operational",
         food |-> "Normal availability",
         shelter |-> "Adequate",
         transportation |-> "Normal operations"]
    IN  CASE AdvisoryBand(score) = 3 -> update(needs,
        [water |-> "INDOOR USE RECOMMENDED - Avoid outdoor collection",
         energy |-> "INCREASED DEMAND - Indoor air filtration",
         hospitals |-> "OVERWHELMED - Respiratory emergencies surge",
         food |-> "DELIVERY RECOMMENDED - Limit outdoor exposure",
         shelter |-> "SEALED ENVIRONMENTS - Air filtration needed",
         transportation |-> "REDUCED SERVICES - Poor visibility, health risks"])
          [] AdvisoryBand(score) = 2 -> update(needs,
        [water |-> "ADEQUATE - Limit outdoor exposure",
         energy |-> "STABLE - Some increased usage",
         hospitals |-> "INCREASED LOAD - Respiratory cases rising",
         food |-> "STABLE - Delivery options recommended",
         shelter |-> "INDOOR FOCUS - Limit outdoor time",
         transportation |-> "MODERATE DISRUPTIONS - Reduced outdoor activity"])
          [] AdvisoryBand(score) = 1 -> update(needs,
        [water |-> "NORMAL - Sensitive groups take care",
         energy |-> "NORMAL - Minimal impact",
         hospitals |-> "NORMAL - Monitor sensitive patients",
         food |-> "NORMAL - Outdoor activities limited for sensitive groups",
         shelter |-> "SECURE - Normal operations",
         transportation |-> "MINOR IMPACTS - Some visibility issues"])
          [] OTHER -> needs

\* _get_water_quality_basic_needs(score): needs, updated in the branch the score takes
get_water_quality_basic_needs(score) ==
    LET needs ==
        [water |-> "Normal supply",
         energy |-> "Normal supply",
         hospitals |-> "Fully operational",
         food |-> "Normal availability",
         shelter |-> "Adequate",
         transportation |-> "Normal operations"]
    IN  CASE AdvisoryBand(score) = 3 -> update(needs,
        [water |-> "UNSAFE - Emergency distribution needed",
         energy |-> "STABLE - Water treatment plants stressed",
         hospitals |-> "OVERLOADED - Waterborne illness cases",
         food |-> "CONTAMINATION RISK - Agriculture affected",
         shelter |-> "WATER CRISIS - Alternative sources needed",
         transportation |-> "MINIMAL IMPACT - Waterway transport affected"])
          [] AdvisoryBand(score) = 2 -> update(needs,
        [water |-> "TREATMENT REQUIRED - Boil water advisory",
         energy |-> "STABLE - Increased treatment costs",
         hospitals |-> "INCREASED CASES - Gastrointestinal illnesses",
         food |-> "MONITOR QUALITY - Irrigation concerns",
         shelter |-> "WATER TREATMENT NEEDED - Filtration systems",
         transportation |-> "MINIMAL IMPACT - Some waterway issues"])
          [] AdvisoryBand(score) = 1 -> update(needs,
        [water |-> "MONITOR QUALITY - Some treatment advised",
         energy |-> "NORMAL - Minimal impact",
         hospitals |-> "NORMAL - Watch for water-related illnesses",
         food |-> "ADEQUATE - Monitor irrigation water",
         shelter |-> "SECURE - Water testing recommended",
         transportation |-> "NORMAL - Minimal impact"])
          [] OTHER -> needs

\* _get_population_basic_needs(score): needs, updated in the branch the score takes
get_population_basic_needs(score) ==
    LET needs ==
        [water |-> "Normal supply",
         energy |-> "Normal supply",
         hospitals |-> "Fully operational",
         food |-> "Normal availability",
         shelter |-> "Adequate",
         transportation |-> "Normal operations"]
    IN  CASE AdvisoryBand(score) = 3 -> update(needs,
        [water |-> "INFRASTRUCTURE STRAIN - Supply shortages possible",
         energy |-> "OVERLOADED - Frequent outages, capacity issues",
         hospitals |-> "OVERWHELMED - Long wait times, resource shortages",
         food |-> "SHORTAGES - Supply chain strain, price inflation",
         shelter |-> "CRITICAL SHORTAGE - Housing crisis, overcrowding",
         transportation |-> "SEVERE CONGESTION - Gridlock, extended commute times"])
          [] AdvisoryBand(score) = 2 -> update(needs,
        [water |-> "INCREASING DEMAND - Infrastructure stress",
         energy |-> "GROWING DEMAND - Occasional brownouts",
         hospitals |-> "UNDER PRESSURE - Extended wait times",
         food |-> "INFLATION PRESSURES - Supply chain stress",
         shelter |-> "SHORTAGE DEVELOPING - Affordable housing crisis",
         transportation |-> "HEAVY CONGESTION - Delays, infrastructure strain"])
          [] AdvisoryBand(score) = 1 -> update(needs,
        [water |-> "ADEQUATE - Monitor demand growth",
         energy |-> "STABLE - Plan for capacity increases",
         hospitals |-> "ADEQUATE - Prepare for increased demand",
         food |-> "SUFFICIENT - Monitor supply chains",
         shelter |-> "ADEQUATE - Plan for growth management",
         transportation |-> "MANAGEABLE - Some congestion issues"])
          [] OTHER -> needs

\* _get_flood_type(rainfall_mm)
get_flood_type(rainfall_mm) ==
    IF rainfall_mm > 10000 THEN "Major flood event"
    ELSE IF rainfall_mm > 6000 THEN "Flash flooding"
    ELSE IF rainfall_mm > 3000 THEN "Urban flooding"
    ELSE "Localized flooding"

\* _get_fire_intensity_level(intensity)
get_fire_intensity_level(intensity) ==
    IF intensity > 80 THEN "Extreme"
    ELSE IF intensity > 60 THEN "High"
    ELSE IF intensity > 40 THEN "Moderate"
    ELSE "Low"

\* _get_health_advisory(aqi)
get_health_advisory(aqi) ==
    IF aqi > 15000 THEN "HEALTH WARNING: Serious effects for everyone"
    ELSE IF aqi > 10000 THEN "HEALTH ALERT: Unhealthy for sensitive groups"
    ELSE IF aqi > 5000 THEN "Moderate health concern"
    ELSE "Good air quality"

\* _get_vulnerable_groups(aqi)
get_vulnerable_groups(aqi) ==
    IF aqi > 10000
    THEN <<"Children", "Elderly", "Pregnant women", "Respiratory conditions",
           "Heart conditions">>
    ELSE IF aqi > 5000 THEN <<"Children", "Elderly", "Respiratory conditions">>
    ELSE <<"None specific">>

\* _get_water_quality_recommendations(score, ph_level): the band's list, and
\* one more entry when the pH is outside [6.5, 8.5]
get_water_quality_recommendations(score, ph_level) ==
    <<BandText("water_quality_recommendations", score)>>
        \o (IF ph_level < 650 \/ ph_level > 850
            THEN <<"pH levels outside optimal range - consider treatment">>
            ELSE <<>>)

\* The dict a calculate_* method returns.
Assessment(level, score, confidence, category, extras) ==
    [raised |-> "none", level |-> level, score |-> score,
     confidence |-> confidence, category |-> category, extras |-> extras]

\* calculate_flood_risk(rainfall, water)
calculate_flood_risk(self, rainfall, water) ==
    LET r == Get(rainfall, "rainfall_mm")
        t == Get(water, "turbidity_NTU")
        err == FirstError(<<r, t>>)
        \* min(98, (rainfall_mm / 200) * 100 + turbidity_NTU)
        score == QMin(98, Q(r.v + 2 * t.v, 200))
    IN  IF err # "none" THEN Raised(err)
        ELSE Assessment(score_to_level(score), Round2(score), 90, "flood",
                 [recommendations |-> BandText("flood_recommendations", score),
                  community_impact |-> BandText("flood_community_impact", score),
                  basic_needs |-> get_flood_basic_needs(score),
                  flood_type |-> get_flood_type(r.v),
                  expected_impact_areas |-> BandText("flood_impact_areas", score)])

\* calculate_fire_risk(fire)
calculate_fire_risk(self, fire) ==
    LET c == Get(fire, "fire_count")
        i == Get(fire, "avg_intensity")
        err == FirstError(<<c, i>>)
        \* min(95, fire_count * 10 + avg_intensity * 50)
        score == QMin(95, Q(1000 * c.v + 50 * i.v, 100))
    IN  IF err # "none" THEN Raised(err)
        ELSE Assessment(score_to_level(score), Round2(score), 85, "fire",
                 [recommendations |-> BandText("fire_recommendations", score),
                  community_impact |-> BandText("fire_community_impact", score),
                  basic_needs |-> get_fire_basic_needs(score),
                  fire_intensity |-> get_fire_intensity_level(i.v),
                  evacuation_zones |-> BandText("fire_evacuation_zones", score)])

\* calculate_drought_risk reading the engine's history: ten points more
\* once a rainfall reading has been recorded
calculate_drought_risk_Mut(self, rainfall) ==
    LET r == Get(rainfall, "rainfall_mm")
        err == IF FirstError(<<r>>) # "none" THEN FirstError(<<r>>)
               ELSE IF "season" \notin DOMAIN rainfall THEN "KeyError"
               ELSE "none"
        base == QMax(0, Q(10000 - r.v, 100))
        context == IF Len(self["rainfall"]) > 0 THEN Q(base.n + 1000, base.d)
                   ELSE base
        score == QMin(95, context)
    IN  IF err # "none" THEN Raised(err)
        ELSE Assessment(score_to_level(score), Round2(score), 80, "drought",
                 [recommendations |-> BandText("drought_recommendations", score)])

\* calculate_drought_risk(rainfall)
calculate_drought_risk(self, rainfall) ==
    LET r == Get(rainfall, "rainfall_mm")
        err == IF FirstError(<<r>>) # "none" THEN FirstError(<<r>>)
               ELSE IF "season" \notin DOMAIN rainfall THEN "KeyError"
               ELSE "none"
        \* max(0, 100 - rainfall_mm)
        base == QMax(0, Q(10000 - r.v, 100))
        \* score *= 1.2 in the dry season
        scaled == IF rainfall["season"] = "dry" THEN Q(base.n * 6, base.d * 5)
                  ELSE base
        score == QMin(95, scaled)
    IN  IF err # "none" THEN Raised(err)
        ELSE Assessment(score_to_level(score), Round2(score), 80, "drought",
                 [recommendations |-> BandText("drought_recommendations", score),
                  community_impact |-> BandText("drought_community_impact", score),
                  basic_needs |-> get_drought_basic_needs(score),
                  drought_category |-> BandText("drought_category", score),
                  water_restrictions |-> BandText("water_restrictions", score)])

\* calculate_air_quality_risk scoring the distance of the AQI from 50
calculate_air_quality_risk_Mut(self, air) ==
    LET a == Get(air, "AQI")
        err == FirstError(<<a>>)
        score == QMin(95, Q(2 * Abs(a.v - 5000), 300))
    IN  IF err # "none" THEN Raised(err)
        ELSE Assessment(score_to_level(score), Round2(score), 85, "air_quality",
                 [recommendations |-> BandText("air_quality_recommendations", score)])

\* calculate_air_quality_risk(air)
calculate_air_quality_risk(self, air) ==
    LET a == Get(air, "AQI")
        err == FirstError(<<a>>)
        \* min(95, (AQI / 150) * 100)
        score == QMin(95, Q(2 * a.v, 300))
    IN  IF err # "none" THEN Raised(err)
        ELSE Assessment(score_to_level(score), Round2(score), 85, "air_quality",
                 [recommendations |-> BandText("air_quality_recommendations", score),
                  community_impact |-> BandText("air_quality_community_impact", score),
                  basic_needs |-> get_air_quality_basic_needs(score),
                  health_advisory |-> get_health_advisory(a.v),
                  vulnerable_groups |-> get_vulnerable_groups(a.v)])

\* calculate_water_quality_risk(water)
calculate_water_quality_risk(self, water) ==
    LET p == Get(water, "pH")
        t == Get(water, "turbidity_NTU")
        err == FirstError(<<p, t>>)
        \* min(95, abs(7 - pH) * 10 + turbidity_NTU * 2)
        score == QMin(95, Q(10 * Abs(700 - p.v) + 2 * t.v, 100))
    IN  IF err # "none" THEN Raised(err)
        ELSE Assessment(score_to_level(score), Round2(score), 80, "water_quality",
                 [recommendations |-> get_water_quality_recommendations(score, p.v),
                  community_impact |-> BandText("water_quality_community_impact", score),
                  basic_needs |-> get_water_quality_basic_needs(score),
                  health_implications |-> BandText("water_health_implications", score),
                  water_safety |-> BandText("water_safety_level", score)])

\* calculate_population_pressure returning its confidence as a percentage
calculate_population_pressure_Mut(self, pop) ==
    LET n == Get(pop, "population")
        g == Get(pop, "growth_trend")
        err == FirstError(<<n, g>>)
        \* min(95, (population / 2000000) * 100 + growth_trend * 100)
        score == QMin(95, Q(n.v + 20000 * g.v, 20000))
    IN  IF err # "none" THEN Raised(err)
        ELSE Assessment(score_to_level(score), Round2(score), 7500, "population",
                 [recommendations |-> BandText("population_recommendations", score),
                  community_impact |-> BandText("population_community_impact", score),
                  basic_needs |-> get_population_basic_needs(score),
                  urban_challenges |-> BandText("urban_challenges", score),
                  infrastructure_needs |-> BandText("infrastructure_needs", score)])

\* calculate_population_pressure(pop)
calculate_population_pressure(self, pop) ==
    LET n == Get(pop, "population")
        g == Get(pop, "growth_trend")
        err == FirstError(<<n, g>>)
        \* min(95, (population / 2000000) * 100 + growth_trend * 100)
        score == QMin(95, Q(n.v + 20000 * g.v, 20000))
    IN  IF err # "none" THEN Raised(err)
        ELSE Assessment(score_to_level(score), Round2(score), 75, "population",
                 [recommendations |-> BandText("population_recommendations", score),
                  community_impact |-> BandText("population_community_impact", score),
                  basic_needs |-> get_population_basic_needs(score),
                  urban_challenges |-> BandText("urban_challenges", score),
                  infrastructure_needs |-> BandText("infrastructure_needs", score)])

(***************************************************************************)
(* The metric dicts the engine is called with.  Each set holds values      *)
(* inside the data model's ranges, values outside them (negative), and     *)
(* malformed dicts (a key absent, a value of the wrong type).              *)
(***************************************************************************)
RainfallInputs ==
    { [rainfall_mm |-> Num(0), season |-> "dry"],
      [rainfall_mm |-> Num(3000), season |-> "rainy"],
      [rainfall_mm |-> Num(12000), season |-> "dry"],
      [rainfall_mm |-> Num(-5000), season |-> "dry"],
      [season |-> "dry"],
      [rainfall_mm |-> Str, season |-> "rainy"],
      [rainfall_mm |-> Num(3000)] }

WaterInputs ==
    { [pH |-> Num(700), turbidity_NTU |-> Num(0)],
      [pH |-> Num(500), turbidity_NTU |-> Num(3000)],
      [pH |-> Num(900), turbidity_NTU |-> Num(6000)],
      [pH |-> Num(700), turbidity_NTU |-> Num(6000)],
      [pH |-> Num(700), turbidity_NTU |-> Num(-500)],
      [turbidity_NTU |-> Num(400)],
      [pH |-> Num(700), turbidity_NTU |-> Str] }

FireInputs ==
    { [fire_count |-> Num(0), avg_intensity |-> Num(0)],
      [fire_count |-> Num(1), avg_intensity |-> Num(50)],
      [fire_count |-> Num(3), avg_intensity |-> Num(90)],
      [fire_count |-> Num(12), avg_intensity |-> Num(0)],
      [fire_count |-> Num(-1), avg_intensity |-> Num(0)],
      [avg_intensity |-> Num(50)],
      [fire_count |-> Str, avg_intensity |-> Num(50)] }

AirInputs ==
    { [AQI |-> Num(0)], [AQI |-> Num(4000)], [AQI |-> Num(10000)],
      [AQI |-> Num(20000)], [AQI |-> Num(-3000)],
      [pm25 |-> Num(2000)], [AQI |-> Str] }

PopInputs ==
    { [population |-> Num(0), growth_trend |-> Num(0)],
      [population |-> Num(500000), growth_trend |-> Num(2)],
      [population |-> Num(2500000), growth_trend |-> Num(250)],
      [population |-> Num(1000000), growth_trend |-> Num(2)],
      [population |-> Num(0), growth_trend |-> Num(-50)],
      [population |-> Num(-1000), growth_trend |-> Num(0)],
      [growth_trend |-> Num(2)],
      [population |-> Num(500000), growth_trend |-> Str] }

\* calculate_flood_risk takes a rainfall and a water dict: every pair of
\* dicts inside the data model's ranges, and each other dict with one
\* partner inside them.
FloodInputs ==
    LET okR == {d \in RainfallInputs :
                   /\ DOMAIN d = {"rainfall_mm", "season"}
                   /\ d["rainfall_mm"].t = "num" /\ d["rainfall_mm"].v >= 0}
        okW == {d \in WaterInputs :
                   /\ DOMAIN d = {"pH", "turbidity_NTU"}
                   /\ d["turbidity_NTU"].t = "num" /\ d["turbidity_NTU"].v >= 0}
        r0 == [rainfall_mm |-> Num(0), season |-> "dry"]
        w0 == [pH |-> Num(700), turbidity_NTU |-> Num(0)]
    IN  (okR \X okW)
            \cup ((RainfallInputs \ okR) \X {w0})
            \cup ({r0} \X (WaterInputs \ okW))

\* The readings update_historical_data is called with.
HistorySamples ==
    { <<[rainfall_mm |-> Num(0), season |-> "dry"],
        [fire_count |-> Num(0), avg_intensity |-> Num(0)],
        [AQI |-> Num(0)],
        [pH |-> Num(700), turbidity_NTU |-> Num(0)],
        [population |-> Num(0), growth_trend |-> Num(0)]>>,
      <<[rainfall_mm |-> Num(12000), season |-> "dry"],
        [fire_count |-> Num(3), avg_intensity |-> Num(90)],
        [AQI |-> Num(20000)],
        [pH |-> Num(900), turbidity_NTU |-> Num(6000)],
        [population |-> Num(2500000), growth_trend |-> Num(250)]>> }

\* The data model's ranges (spec section 3): every field present and a
\* number; rainfall, turbidity, counts, intensity, AQI and population are
\* >= 0, pH is in [0,14], growth_trend is any percentage.
IsNum(d, k) == k \in DOMAIN d /\ d[k].t = "num"
NonNeg(d, k) == IsNum(d, k) /\ d[k].v >= 0

ValidRainfall(d) == NonNeg(d, "rainfall_mm") /\ "season" \in DOMAIN d
ValidWater(d) ==
    /\ NonNeg(d, "turbidity_NTU")
    /\ IsNum(d, "pH") /\ d["pH"].v >= 0 /\ d["pH"].v <= 1400
ValidFire(d) == NonNeg(d, "fire_count") /\ NonNeg(d, "avg_intensity")
ValidAir(d) == NonNeg(d, "AQI")
ValidPop(d) == NonNeg(d, "population") /\ IsNum(d, "growth_trend")

ValidArgs(op, args) ==
    CASE op = "calculate_flood_risk" ->
            ValidRainfall(args[1]) /\ ValidWater(args[2])
      [] op = "calculate_fire_risk" -> ValidFire(args[1])
      [] op = "calculate_drought_risk" -> ValidRainfall(args[1])
      [] op = "calculate_air_quality_risk" -> ValidAir(args[1])
      [] op = "calculate_water_quality_risk" -> ValidWater(args[1])
      [] op = "calculate_population_pressure" -> ValidPop(args[1])
      [] OTHER -> FALSE

(***************************************************************************)
(* The engine as a state machine: one action per public method.            *)
(***************************************************************************)
NoCall == [op |-> "none"]

Call(op, args, ret) == [op |-> op, args |-> args, ret |-> ret]

\* `first` keeps one of the calls made before any update_historical_data.
Keep(call) ==
    IF Len(historical_data["rainfall"]) = 0 THEN {first, call} ELSE {first}

ScoringOps ==
    {"calculate_flood_risk", "calculate_fire_risk", "calculate_drought_risk",
     "calculate_air_quality_risk", "calculate_water_quality_risk",
     "calculate_population_pressure"}

\* The values of the variables a specification does not use.
IdleEngine ==
    /\ historical_data = initialize_historical_data
    /\ last = NoCall
    /\ first = NoCall
IdleLevel == lvl = [a |-> 0, la |-> "none", b |-> 0, lb |-> "none"]
IdleAgg ==
    agg = [risks |-> <<>>, args |-> [given |-> "risks"], ret |-> [level |-> "none"]]
IdleDash ==
    /\ data_cache = [nasa_data |-> {}, risk_assessments |-> {}, last_updated |-> "None"]
    /\ resp = [kind |-> "none"]

IdleCache ==
    /\ now = 0
    /\ timed_cache = [nasa_data |-> <<>>, last_updated |-> -1]
    /\ tasks = <<>>
    /\ served = [kind |-> "none"]

\* RiskEngine.__init__
Init == IdleEngine /\ IdleLevel /\ IdleAgg /\ IdleDash /\ IdleCache

\* A scoring call returns its dict and leaves the engine as it is.  The call
\* is remembered in `last`.
UpdateHistoricalData ==
    /\ Len(historical_data["rainfall"]) < MaxHist
    /\ \E s \in HistorySamples :
          historical_data' =
              update_historical_data(historical_data, s[1], s[2], s[3], s[4], s[5])
    /\ last' = [op |-> "update_historical_data"]
    /\ UNCHANGED first
    /\ UNCHANGED <<levelVars, aggVars, dashVars, cacheVars>>

CalcFlood ==
    \E in \in FloodInputs :
        /\ last' = Call("calculate_flood_risk", in,
                        calculate_flood_risk(historical_data, in[1], in[2]))
        /\ first' \in Keep(last')
        /\ UNCHANGED historical_data
        /\ UNCHANGED <<levelVars, aggVars, dashVars, cacheVars>>

CalcFire ==
    \E fire \in FireInputs :
        /\ last' = Call("calculate_fire_risk", <<fire>>,
                        calculate_fire_risk(historical_data, fire))
        /\ first' \in Keep(last')
        /\ UNCHANGED historical_data
        /\ UNCHANGED <<levelVars, aggVars, dashVars, cacheVars>>

\* calculate_drought_risk recording the reading it scored
CalcDrought_Mut ==
    \E rainfall \in RainfallInputs :
        /\ last' = Call("calculate_drought_risk", <<rainfall>>,
                        calculate_drought_risk(historical_data, rainfall))
        /\ first' \in Keep(last')
        /\ historical_data' =
              IF Len(historical_data["rainfall"]) < MaxHist
              THEN [historical_data EXCEPT !["rainfall"] = Append(@, rainfall)]
              ELSE historical_data
        /\ UNCHANGED <<levelVars, aggVars, dashVars, cacheVars>>

CalcDrought ==
    \E rainfall \in RainfallInputs :
        /\ last' = Call("calculate_drought_risk", <<rainfall>>,
                        calculate_drought_risk(historical_data, rainfall))
        /\ first' \in Keep(last')
        /\ UNCHANGED historical_data
        /\ UNCHANGED <<levelVars, aggVars, dashVars, cacheVars>>

CalcAir ==
    \E air \in AirInputs :
        /\ last' = Call("calculate_air_quality_risk", <<air>>,
                        calculate_air_quality_risk(historical_data, air))
        /\ first' \in Keep(last')
        /\ UNCHANGED historical_data
        /\ UNCHANGED <<levelVars, aggVars, dashVars, cacheVars>>

CalcWater ==
    \E water \in WaterInputs :
        /\ last' = Call("calculate_water_quality_risk", <<water>>,
                        calculate_water_quality_risk(historical_data, water))
        /\ first' \in Keep(last')
        /\ UNCHANGED historical_data
        /\ UNCHANGED <<levelVars, aggVars, dashVars, cacheVars>>

CalcPop ==
    \E pop \in PopInputs :
        /\ last' = Call("calculate_population_pressure", <<pop>>,
                        calculate_population_pressure(historical_data, pop))
        /\ first' \in Keep(last')
        /\ UNCHANGED historical_data
        /\ UNCHANGED <<levelVars, aggVars, dashVars, cacheVars>>

Next ==
    \/ UpdateHistoricalData
    \/ CalcFlood
    \/ CalcFire
    \/ CalcDrought
    \/ CalcAir
    \/ CalcWater
    \/ CalcPop

Spec == Init /\ [][Next]_vars

(***************************************************************************)
(* get_risk_level applied twice: to a score the initial state draws and to *)
(* a score the action draws, both multiples of 1/ScoreSteps in [0,100].    *)
(***************************************************************************)
Scores == 0 .. (100 * ScoreSteps)

InitLevel ==
    /\ IdleEngine /\ IdleAgg /\ IdleDash /\ IdleCache
    /\ \E a \in Scores :
          lvl = [a |-> a, la |-> get_risk_level(Q(a, ScoreSteps)),
                 b |-> 0, lb |-> "none"]

ApplyGetRiskLevel ==
    /\ lvl.lb = "none"
    /\ \E b \in Scores :
          lvl' = [lvl EXCEPT !.b = b, !.lb = get_risk_level(Q(b, ScoreSteps))]
    /\ UNCHANGED <<engineVars, aggVars, dashVars, cacheVars>>

NextLevel == ApplyGetRiskLevel

SpecLevel == InitLevel /\ [][NextLevel]_vars

(***************************************************************************)
(* calculate_comprehensive_risk (app/main.py).  The seven assessments come *)
(* from the engine main.py imports; each is a dict with a score and a      *)
(* confidence (hundredths) and a data_quality.                             *)
(***************************************************************************)
\* The keys of `risks`, in the order the dict is built.
RiskTypes ==
    <<"flood", "fire", "drought", "cyclone", "air_quality", "water_quality",
      "pollution">>

RECURSIVE SumOver(_, _, _)
\* sum(f[k] for the first n keys of keys)
SumOver(f, keys, n) ==
    IF n = 0 THEN 0 ELSE SumOver(f, keys, n - 1) + f[keys[n]]

\* sorted(..., key=score, reverse=True): a stable sort, so that entries of
\* equal score stay in the order they had.  `x` goes after every entry whose
\* score is at least its own.
RECURSIVE InsertByScore_Mut(_, _)
\* an insertion that is not stable: `x` goes before the entries of equal score
InsertByScore_Mut(sorted, x) ==
    IF sorted = <<>> THEN <<x>>
    ELSE IF Head(sorted)[2] > x[2] THEN <<Head(sorted)>> \o InsertByScore_Mut(Tail(sorted), x)
    ELSE <<x>> \o sorted

RECURSIVE InsertByScore(_, _)
InsertByScore(sorted, x) ==
    IF sorted = <<>> THEN <<x>>
    ELSE IF Head(sorted)[2] >= x[2] THEN <<Head(sorted)>> \o InsertByScore(Tail(sorted), x)
    ELSE <<x>> \o sorted

RECURSIVE SortedByScore(_, _)
\* the first n entries of items, sorted
SortedByScore(items, n) ==
    IF n = 0 THEN <<>> ELSE InsertByScore(SortedByScore(items, n - 1), items[n])

\* calculate_data_quality counting every assessment that is not a fallback
calculate_data_quality_Mut(risks) ==
    LET real == [k \in DOMAIN risks |->
                    IF risks[k].data_quality # "fallback" THEN 1 ELSE 0]
        n == Len(RiskTypes)
    IN  RoundHalfEven(SumOver(real, RiskTypes, n) * 1000, n)

\* calculate_data_quality(risks): a percentage rounded to one decimal, in
\* tenths
calculate_data_quality(risks) ==
    LET real == [k \in DOMAIN risks |->
                    IF risks[k].data_quality = "real" THEN 1 ELSE 0]
        n == Len(RiskTypes)
    IN  RoundHalfEven(SumOver(real, RiskTypes, n) * 1000, n)

\* the trend with the score 60 counted as increasing
risk_trend_Mut(overall_score) ==
    IF QGe(overall_score, 60) THEN "increasing"
    ELSE IF QGe(overall_score, 30) THEN "stable"
    ELSE "decreasing"

\* "increasing" if overall_score > 60 else "stable" if overall_score > 30
\* else "decreasing"
risk_trend(overall_score) ==
    IF ~QLt(overall_score, 60) /\ overall_score.n # 60 * overall_score.d
    THEN "increasing"
    ELSE IF ~QLt(overall_score, 30) /\ overall_score.n # 30 * overall_score.d
    THEN "stable"
    ELSE "decreasing"

\* calculate_comprehensive_risk with score and confidence truncated
comprehensive_overall_risk_Mut(risks) ==
    LET n == Len(RiskTypes)
        risk_scores == [k \in DOMAIN risks |-> risks[k].score * risks[k].confidence]
        overall_score == Q(SumOver(risk_scores, RiskTypes, n), 10000 * n)
        confidences == [k \in DOMAIN risks |-> risks[k].confidence]
    IN  [level |-> get_risk_level(overall_score),
         score |-> overall_score.n \div overall_score.d,
         confidence |-> SumOver(confidences, RiskTypes, n) \div n]

\* The "overall_risk" record calculate_comprehensive_risk returns.  score is
\* round(overall_score), an integer; confidence is round(mean, 2), in
\* hundredths.
comprehensive_overall_risk(risks) ==
    LET n == Len(RiskTypes)
        \* [risk['score'] * risk['confidence'] for risk in risks.values()]
        risk_scores == [k \in DOMAIN risks |-> risks[k].score * risks[k].confidence]
        \* sum(risk_scores) / len(risk_scores)
        overall_score == Q(SumOver(risk_scores, RiskTypes, n), 10000 * n)
        confidences == [k \in DOMAIN risks |-> risks[k].confidence]
        items == [i \in 1..n |-> <<RiskTypes[i], risks[RiskTypes[i]].score>>]
        primary_threats == SubSeq(SortedByScore(items, n), 1, 3)
    IN  [level |-> get_risk_level(overall_score),
         score |-> RoundHalfEven(overall_score.n, overall_score.d),
         confidence |-> RoundHalfEven(SumOver(confidences, RiskTypes, n), n),
         trend |-> risk_trend(overall_score),
         primary_threats |-> [i \in 1..3 |-> primary_threats[i][1]],
         data_quality_percentage |-> calculate_data_quality(risks)]

\* The assessments calculate_comprehensive_risk is applied to.
RiskSamples ==
    { [score |-> 1000, confidence |-> 90, data_quality |-> "real"],
      [score |-> 2800, confidence |-> 70, data_quality |-> "simulated"],
      [score |-> 5000, confidence |-> 100, data_quality |-> "real"],
      [score |-> 9800, confidence |-> 85, data_quality |-> "fallback"] }

RiskTypeSet == {RiskTypes[i] : i \in 1..Len(RiskTypes)}

\* Assessments whose weighted score is one of the trend's thresholds.
EdgeSamples ==
    { [score |-> 3000, confidence |-> 100, data_quality |-> "real"],
      [score |-> 6000, confidence |-> 100, data_quality |-> "simulated"] }

\* The dicts `risks` the aggregation is applied to: every assignment of the
\* samples to the categories, and each edge sample held by all of them.
RiskInputs ==
    [RiskTypeSet -> RiskSamples]
        \cup {[k \in RiskTypeSet |-> s] : s \in EdgeSamples}

\* EnhancedRiskEngine.calculate_cyclone_risk with the short-circuit taken
\* only when no system at all is reported
calculate_cyclone_risk_Mut(cyclone, location_info) ==
    LET static == location_info.static_risk_factors
        coastal == IF "coastal" \in DOMAIN static THEN static.coastal ELSE 30
        score == IF 2000 + coastal * 15 < 9500 THEN 2000 + coastal * 15 ELSE 9500
        quality == IF cyclone.is_real_data THEN "real" ELSE "simulated"
    IN  IF cyclone.active_systems < 0
        THEN [level |-> get_risk_level(Q(10, 1)), score |-> 1000,
              confidence |-> 90, data_quality |-> quality]
        ELSE [level |-> get_risk_level(Q(score, 100)), score |-> score,
              confidence |-> 65, data_quality |-> quality]

\* EnhancedRiskEngine.calculate_cyclone_risk(nasa_data, location_info), which
\* main.py calls and app/risk_engine.py does not hold: no active system gives
\* the fixed score 10 with confidence 0.90 and nothing else is looked at;
\* otherwise 20 + coastal * 15 (coastal 0.3 when the profile has none), at
\* most 95, with confidence 0.65.  The level is the band of the score.
calculate_cyclone_risk(cyclone, location_info) ==
    LET static == location_info.static_risk_factors
        coastal == IF "coastal" \in DOMAIN static THEN static.coastal ELSE 30
        score == IF 2000 + coastal * 15 < 9500 THEN 2000 + coastal * 15 ELSE 9500
        quality == IF cyclone.is_real_data THEN "real" ELSE "simulated"
    IN  IF cyclone.active_systems = 0
        THEN [level |-> get_risk_level(Q(10, 1)), score |-> 1000,
              confidence |-> 90, data_quality |-> quality]
        ELSE [level |-> get_risk_level(Q(score, 100)), score |-> score,
              confidence |-> 65, data_quality |-> quality]

\* nasa_data's cyclone metrics
CycloneInputs ==
    [active_systems : {0, 1, 3}, is_real_data : BOOLEAN]

\* location_info: profiles with no coastal factor, with none of the coast
\* and with all of it (hundredths)
LocationProfiles ==
    { [static_risk_factors |-> [flood |-> 50]],
      [static_risk_factors |-> [coastal |-> 0]],
      [static_risk_factors |-> [coastal |-> 100]] }

\* The arguments with which the cyclone entry of `risks` is computed.
CycloneArgs ==
    { [given |-> "inputs", cyclone |-> c, location_info |-> p] :
          c \in CycloneInputs, p \in LocationProfiles }

\* `risks` as main.py builds it: the cyclone entry is what the engine
\* returns for args, the other entries are the sample s.
RisksWithCyclone(s, args) ==
    [k \in RiskTypeSet |->
        IF k = "cyclone"
        THEN calculate_cyclone_risk(args.cyclone, args.location_info)
        ELSE s]

InitAgg ==
    /\ IdleEngine /\ IdleLevel /\ IdleDash /\ IdleCache
    /\ \/ \E risks \in RiskInputs :
             agg = [risks |-> risks, args |-> [given |-> "risks"],
                    ret |-> [level |-> "none"]]
       \/ \E s \in RiskSamples, args \in CycloneArgs :
             agg = [risks |-> RisksWithCyclone(s, args), args |-> args,
                    ret |-> [level |-> "none"]]

ComprehensiveRisk ==
    /\ agg.ret.level = "none"
    /\ agg' = [agg EXCEPT !.ret = comprehensive_overall_risk(agg.risks)]
    /\ UNCHANGED <<engineVars, levelVars, dashVars, cacheVars>>

NextAgg == ComprehensiveRisk

SpecAgg == InitAgg /\ [][NextAgg]_vars

(***************************************************************************)
(* The engine's scoring methods and the aggregation side by side: the      *)
(* confidences both report.                                                *)
(***************************************************************************)
\* `risks` in which four categories hold one sample and the three others
\* the simulated one
MixedRisks ==
    { [k \in RiskTypeSet |->
          IF k \in {"flood", "drought", "air_quality", "pollution"} THEN s
          ELSE [score |-> 2800, confidence |-> 70, data_quality |-> "simulated"]] :
      s \in RiskSamples }

InitConfidence ==
    /\ IdleEngine /\ IdleLevel /\ IdleDash /\ IdleCache
    /\ \E risks \in MixedRisks :
          agg = [risks |-> risks, args |-> [given |-> "risks"],
                 ret |-> [level |-> "none"]]

NextConfidence ==
    \/ CalcFlood
    \/ CalcFire
    \/ CalcDrought
    \/ CalcAir
    \/ CalcWater
    \/ CalcPop
    \/ ComprehensiveRisk

SpecConfidence == InitConfidence /\ [][NextConfidence]_vars

(***************************************************************************)
(* The dashboard endpoints of app/main.py and the tables of geo_data.py    *)
(* they validate against.                                                  *)
(***************************************************************************)
\* LuandaGeoData._initialize_municipalities, in the order of the dict;
\* area_km2 in thousandths of a square kilometre
MunicipalityTable ==
    <<
      [id |-> "BELAS", province |-> "LUANDA", area_km2 |-> 1076],
      [id |-> "CAZENGA", province |-> "LUANDA", area_km2 |-> 3720],
      [id |-> "INGOMBOTA", province |-> "LUANDA", area_km2 |-> 4420],
      [id |-> "KILAMBA_KIAXI", province |-> "LUANDA", area_km2 |-> 5420],
      [id |-> "MAIANGA", province |-> "LUANDA", area_km2 |-> 3550],
      [id |-> "RANGEL", province |-> "LUANDA", area_km2 |-> 2150],
      [id |-> "SAMBA", province |-> "LUANDA", area_km2 |-> 4820],
      [id |-> "SANDA", province |-> "LUANDA", area_km2 |-> 3250],
      [id |-> "VIANA", province |-> "LUANDA", area_km2 |-> 42550],
      [id |-> "CACUACO", province |-> "LUANDA", area_km2 |-> 571000],
      [id |-> "CAMAMA", province |-> "LUANDA", area_km2 |-> 2850],
      [id |-> "CAPALANCA", province |-> "LUANDA", area_km2 |-> 1920],
      [id |-> "FUTUNGODE_BELAS", province |-> "LUANDA", area_km2 |-> 3450],
      [id |-> "MUSSULO", province |-> "LUANDA", area_km2 |-> 15250],
      [id |-> "QUICOLO", province |-> "LUANDA", area_km2 |-> 2750],
      [id |-> "QUILAMBA_QUIAXE", province |-> "LUANDA", area_km2 |-> 3150],
      [id |-> "TALATONA", province |-> "LUANDA", area_km2 |-> 111000],
      [id |-> "ZANGO", province |-> "LUANDA", area_km2 |-> 2950],
      [id |-> "CAXITO", province |-> "LUANDA", area_km2 |-> 3250],
      [id |-> "BENGUELA_CITY", province |-> "BENGUELA", area_km2 |-> 2100000],
      [id |-> "LOBITO", province |-> "BENGUELA", area_km2 |-> 3648000],
      [id |-> "HUAMBO_CITY", province |-> "HUAMBO", area_km2 |-> 2600000],
      [id |-> "CABINDA_CITY", province |-> "CABINDA", area_km2 |-> 280000],
      [id |-> "LUBANGO", province |-> "HUILA", area_km2 |-> 3140000],
      [id |-> "ONDJIVA", province |-> "CUNENE", area_km2 |-> 15874000]
    >>

Municipality(id) ==
    CHOOSE m \in {MunicipalityTable[i] : i \in 1..Len(MunicipalityTable)} : m.id = id

\* the keys of geo_data.municipalities
municipalities == {MunicipalityTable[i].id : i \in 1..Len(MunicipalityTable)}

\* LuandaGeoData._initialize_provinces: every entry has name, capital,
\* population, area_km2 (square kilometres), municipalities and risk_profile
provinces ==
    [
      LUANDA |-> [area_km2 |-> 2418,
                  municipalities |-> <<"BELAS", "CAZENGA", "INGOMBOTA", "KILAMBA_KIAXI",
                     "MAIANGA", "RANGEL", "SAMBA", "SANDA", "VIANA",
                     "CACUACO", "CAMAMA", "CAPALANCA",
                     "FUTUNGODE_BELAS", "MUSSULO", "QUICOLO",
                     "QUILAMBA_QUIAXE", "TALATONA", "ZANGO", "CAXITO">>],
      BENGUELA |-> [area_km2 |-> 31788,
                    municipalities |-> <<"BENGUELA_CITY", "LOBITO">>],
      HUAMBO |-> [area_km2 |-> 34274,
                  municipalities |-> <<"HUAMBO_CITY">>],
      CABINDA |-> [area_km2 |-> 7283,
                   municipalities |-> <<"CABINDA_CITY">>],
      ZAIRE |-> [area_km2 |-> 40030,
                 municipalities |-> <<>>],
      UIGE |-> [area_km2 |-> 58698,
                municipalities |-> <<>>],
      MALANJE |-> [area_km2 |-> 97602,
                   municipalities |-> <<>>],
      LUNDA_NORTE |-> [area_km2 |-> 103760,
                       municipalities |-> <<>>],
      LUNDA_SUL |-> [area_km2 |-> 45610,
                     municipalities |-> <<>>],
      BIE |-> [area_km2 |-> 70314,
               municipalities |-> <<>>],
      MOXICO |-> [area_km2 |-> 223023,
                  municipalities |-> <<>>],
      NAMIBE |-> [area_km2 |-> 57191,
                  municipalities |-> <<>>],
      HUILA |-> [area_km2 |-> 75002,
                 municipalities |-> <<"LUBANGO">>],
      CUNENE |-> [area_km2 |-> 87342,
                  municipalities |-> <<"ONDJIVA">>],
      CUANZA_NORTE |-> [area_km2 |-> 24110,
                        municipalities |-> <<>>],
      CUANZA_SUL |-> [area_km2 |-> 55660,
                      municipalities |-> <<>>],
      BIC |-> [area_km2 |-> 70314,
               municipalities |-> <<>>],
      CUANDO_CUBANGO |-> [area_km2 |-> 199049,
                          municipalities |-> <<>>]
    ]

\* str.upper on the strings a request carries
upper(s) ==
    CASE s = "luanda" -> "LUANDA"
      [] s = "viana" -> "VIANA"
      [] s = "municipalities" -> "MUNICIPALITIES"
      [] s = "provinces" -> "PROVINCES"
      [] s = "status" -> "STATUS"
      [] OTHER -> s

\* f"{province}_{municipality}" if municipality else province
cache_key(province, municipality) == <<province, municipality>>

\* get_municipalities_by_province(province), a list in table order
get_municipalities_by_province(province) ==
    LET belongs(m) == m.province = province
        selected == SelectSeq(MunicipalityTable, belongs)
    IN  [i \in 1..Len(selected) |-> selected[i].id]

\* get_location_info: the subscripts and the division that can raise
get_location_info(province, municipality) ==
    IF municipality # "" /\ municipality \in municipalities
    THEN IF province \notin DOMAIN provinces THEN Raised("KeyError")
         ELSE IF Municipality(municipality).area_km2 = 0 THEN Raised("ZeroDivisionError")
         ELSE [raised |-> "none", type |-> "MUNICIPALITY", id |-> municipality,
               province |-> province]
    ELSE IF province \notin DOMAIN provinces THEN Raised("KeyError")
         ELSE IF provinces[province].area_km2 = 0 THEN Raised("ZeroDivisionError")
         ELSE [raised |-> "none", type |-> "PROVINCE", id |-> province,
               province |-> province]

\* is_data_stale(); `elapsed` says whether more than 1800 s have passed
is_data_stale(cache, elapsed) ==
    IF cache.last_updated = "None" THEN TRUE ELSE elapsed

\* refresh_location_data: whether the fetches succeed or the refresh raises,
\* the entry written under the key holds the five sources
refresh_location_data(cache, province, municipality) ==
    [cache EXCEPT !.nasa_data = @ \cup {cache_key(province, municipality)}]

get_nasa_data_for_location(cache, province, municipality, elapsed) ==
    IF cache_key(province, municipality) \notin cache.nasa_data
           \/ is_data_stale(cache, elapsed)
    THEN refresh_location_data(cache, province, municipality)
    ELSE cache

provinces_to_refresh == <<"LUANDA", "BENGUELA", "HUAMBO", "CABINDA", "HUILA", "CUNENE">>

\* refresh_all_data: each listed province and its first two municipalities
refresh_all_data(cache) ==
    LET keys(p) ==
            LET muns == get_municipalities_by_province(p)
            IN  {cache_key(p, "")} \cup
                    {cache_key(p, muns[i]) : i \in {j \in 1..Len(muns) : j <= 2}}
        refreshed == UNION {keys(provinces_to_refresh[i]) :
                               i \in 1..Len(provinces_to_refresh)}
    IN  [cache EXCEPT !.nasa_data = @ \cup refreshed, !.last_updated = "utcnow"]

\* The keys of a dashboard generate_unified_dashboard and
\* get_fallback_dashboard both return.
TopLevelSections ==
    {"dashboard", "risk_assessment", "environmental_assessment", "alerts",
     "nasa_data_sources", "temporal_context", "actionable_insights", "summary"}

\* A response.  raised names the step of the try block that raised.
Response(status_code, sections, fallback_mode, location, raised) ==
    [kind |-> IF status_code = 200 THEN "dashboard" ELSE "error",
     status_code |-> status_code, sections |-> sections,
     fallback_mode |-> fallback_mode, location |-> location, raised |-> raised]

HTTPException(status_code) ==
    Response(status_code, {}, FALSE, <<>>, "none")

\* generate_unified_dashboard: its "dashboard" section has no fallback_mode
generate_unified_dashboard(location_info) ==
    Response(200, TopLevelSections, FALSE, <<location_info.type, location_info.id>>, "none")

\* get_fallback_dashboard; an exception of get_location_info leaves the
\* handler, which the server answers with status 500
get_fallback_dashboard(province, municipality, raised) ==
    LET location_info == get_location_info(province, municipality)
    IN  IF location_info.raised # "none"
        THEN Response(500, {}, FALSE, <<>>, raised)
        ELSE Response(200, TopLevelSections, TRUE,
                      <<location_info.type, location_info.id>>, raised)

\* The steps of a try block that call the risk engine or read what it
\* returned, in order.
TrySteps ==
    <<"calculate_comprehensive_risk", "calculate_environmental_assessment",
      "get_location_alerts", "generate_unified_dashboard">>

Failures == {"none"} \cup {TrySteps[i] : i \in 1..Len(TrySteps)}

NoTask == [task |-> "none", province |-> "", municipality |-> ""]

\* What a handler leaves: the response, the cache and the background task
Handled(response, cache, background) ==
    [resp |-> response, cache |-> cache, background |-> background]

\* the try block of get_unified_dashboard with the exception propagated
get_unified_dashboard_Mut(cache, body_province, body_municipality, elapsed, failing) ==
    LET province == upper(body_province)
        municipality == upper(body_municipality)
        background == [task |-> "refresh_all_data", province |-> "", municipality |-> ""]
    IN  IF province = "" THEN Handled(HTTPException(400), cache, NoTask)
        ELSE IF province \notin DOMAIN provinces
        THEN Handled(HTTPException(404), cache, NoTask)
        ELSE IF municipality # "" /\ municipality \notin municipalities
        THEN Handled(HTTPException(404), cache, NoTask)
        ELSE
        LET location_info == get_location_info(province, municipality)
            fetched == get_nasa_data_for_location(cache, province, municipality, elapsed)
        IN  IF failing # "none"
            THEN Handled(Response(500, {}, FALSE, <<>>, failing), fetched, background)
            ELSE Handled(generate_unified_dashboard(location_info),
                         [fetched EXCEPT
                             !.risk_assessments = @ \cup {cache_key(province, municipality)},
                             !.last_updated = "utcnow"],
                         background)

\* GET /api/{province}/{municipality}
get_municipality_data(cache, path_province, path_municipality, elapsed, failing) ==
    LET province_upper == upper(path_province)
        municipality_upper == upper(path_municipality)
        background == [task |-> "refresh_location_data", province |-> province_upper,
                       municipality |-> municipality_upper]
    IN  IF province_upper \notin DOMAIN provinces
        THEN Handled(HTTPException(404), cache, NoTask)
        ELSE IF municipality_upper \notin municipalities
        THEN Handled(HTTPException(404), cache, NoTask)
        ELSE IF Municipality(municipality_upper).province # province_upper
        THEN Handled(HTTPException(400), cache, NoTask)
        ELSE
        LET location_info == get_location_info(province_upper, municipality_upper)
        IN  IF location_info.raised # "none"
            THEN Handled(get_fallback_dashboard(province_upper, municipality_upper,
                                                "get_location_info"),
                         cache, background)
            ELSE
            LET fetched == get_nasa_data_for_location(cache, province_upper,
                                                      municipality_upper, elapsed)
            IN  IF failing # "none"
                THEN Handled(get_fallback_dashboard(province_upper, municipality_upper,
                                                    failing),
                             fetched, background)
                ELSE Handled(generate_unified_dashboard(location_info), fetched,
                             background)

\* GET /api/{province}.  The loop over the province's municipalities
\* subscripts a coroutine (await f(...)["active_alerts"]), a TypeError, so it
\* raises as soon as the province has a municipality.
get_province_data(cache, path_province, elapsed, failing) ==
    LET province_upper == upper(path_province)
        background == [task |-> "refresh_location_data", province |-> province_upper,
                       municipality |-> ""]
    IN  IF province_upper \notin DOMAIN provinces
        THEN Handled(HTTPException(404), cache, NoTask)
        ELSE
        LET location_info == get_location_info(province_upper, "")
        IN  IF location_info.raised # "none"
            THEN Handled(get_fallback_dashboard(province_upper, "", "get_location_info"),
                         cache, background)
            ELSE
            LET fetched == get_nasa_data_for_location(cache, province_upper, "", elapsed)
                muns == get_municipalities_by_province(province_upper)
                \* the municipality loop fetches the first municipality's data
                \* before it raises
                looped == IF Len(muns) > 0
                          THEN get_nasa_data_for_location(fetched, province_upper,
                                                          muns[1], elapsed)
                          ELSE fetched
            IN  IF failing \notin {"none", "generate_unified_dashboard"}
                THEN Handled(get_fallback_dashboard(province_upper, "", failing),
                             fetched, background)
                ELSE IF Len(muns) > 0
                THEN Handled(get_fallback_dashboard(province_upper, "",
                                                    "municipalities_loop"),
                             looped, background)
                ELSE IF failing # "none"
                THEN Handled(get_fallback_dashboard(province_upper, "", failing),
                             fetched, background)
                ELSE Handled([generate_unified_dashboard(location_info) EXCEPT
                                 !.sections = @ \cup {"province_summary"}],
                             fetched, background)

\* POST /api/dashboard.  A municipality is checked to be known, not to
\* belong to the province.
get_unified_dashboard(cache, body_province, body_municipality, elapsed, failing) ==
    LET province == upper(body_province)
        municipality == upper(body_municipality)
        background == [task |-> "refresh_all_data", province |-> "", municipality |-> ""]
    IN  IF province = "" THEN Handled(HTTPException(400), cache, NoTask)
        ELSE IF province \notin DOMAIN provinces
        THEN Handled(HTTPException(404), cache, NoTask)
        ELSE IF municipality # "" /\ municipality \notin municipalities
        THEN Handled(HTTPException(404), cache, NoTask)
        ELSE
        LET location_info == get_location_info(province, municipality)
        IN  IF location_info.raised # "none"
            THEN Handled(get_fallback_dashboard(province, municipality,
                                                "get_location_info"),
                         cache, background)
            ELSE
            LET fetched == get_nasa_data_for_location(cache, province, municipality,
                                                      elapsed)
            IN  IF failing # "none"
                THEN Handled(get_fallback_dashboard(province, municipality, failing),
                             fetched, background)
                ELSE Handled(generate_unified_dashboard(location_info),
                             [fetched EXCEPT
                                 !.risk_assessments = @ \cup {cache_key(province, municipality)},
                                 !.last_updated = "utcnow"],
                             background)

\* The background task a handler added, run once the response is sent.
run_background(cache, background) ==
    IF background.task = "refresh_location_data"
    THEN refresh_location_data(cache, background.province, background.municipality)
    ELSE IF background.task = "refresh_all_data" THEN refresh_all_data(cache)
    ELSE cache

\* The strings requests carry: a province with municipalities, one with
\* none, an unknown one and the empty string.
ProvinceInputs == {"luanda", "ZAIRE", "ATLANTIS", ""}

\* A municipality of LUANDA, an unknown one and the empty string.
MunicipalityInputs == {"viana", "ATLANTIS", ""}

InitDash == IdleEngine /\ IdleLevel /\ IdleAgg /\ IdleDash /\ IdleCache

GetMunicipalityData ==
    \E province \in ProvinceInputs \ {""}, municipality \in MunicipalityInputs \ {""},
       elapsed \in BOOLEAN, failing \in Failures :
        LET handled == get_municipality_data(data_cache, province, municipality,
                                             elapsed, failing)
        IN  /\ resp' = handled.resp
            /\ data_cache' = run_background(handled.cache, handled.background)
            /\ UNCHANGED <<engineVars, levelVars, aggVars, cacheVars>>

GetProvinceData ==
    \E province \in ProvinceInputs \ {""}, elapsed \in BOOLEAN, failing \in Failures :
        LET handled == get_province_data(data_cache, province, elapsed, failing)
        IN  /\ resp' = handled.resp
            /\ data_cache' = run_background(handled.cache, handled.background)
            /\ UNCHANGED <<engineVars, levelVars, aggVars, cacheVars>>

GetUnifiedDashboard ==
    \E province \in ProvinceInputs, municipality \in MunicipalityInputs,
       elapsed \in BOOLEAN, failing \in Failures :
        LET handled == get_unified_dashboard(data_cache, province, municipality,
                                             elapsed, failing)
        IN  /\ resp' = handled.resp
            /\ data_cache' = run_background(handled.cache, handled.background)
            /\ UNCHANGED <<engineVars, levelVars, aggVars, cacheVars>>

NextDash == GetMunicipalityData \/ GetProvinceData \/ GetUnifiedDashboard

SpecDash == InitDash /\ [][NextDash]_vars

(***************************************************************************)
(* data_cache["nasa_data"] and data_cache["last_updated"] of app/main.py   *)
(* with the time of every write.  The clock counts ticks of 900 seconds;   *)
(* last_updated is -1 for None.                                            *)
(***************************************************************************)
MetricKinds == {"gpm", "viirs", "air_quality", "water_quality", "population"}

\* get_safe_fallback(nasa_service, data_type, ...): fallbacks.get(data_type, {})
get_safe_fallback(data_type) ==
    IF data_type \in MetricKinds THEN "FALLBACK" ELSE "empty"

\* safe_get_data(data_result, ...): the result, or the fallback when the
\* fetch handed an exception to gather
safe_get_data(is_exception, data_type) ==
    IF is_exception THEN get_safe_fallback(data_type) ELSE "service"

\* set_fallback_data: the entry it stores
fallback_data == [k \in MetricKinds |-> "FALLBACK"]

\* What a refresh meets: the fetches that raised, or an exception of the
\* whole try block.
Outcomes ==
    { [raised |-> FALSE, failed |-> {}],
      [raised |-> FALSE, failed |-> {"gpm"}],
      [raised |-> TRUE, failed |-> {}] }

Succeeded == [raised |-> FALSE, failed |-> {}]

\* refresh_location_data leaving the cache as it is when the try block raises
refresh_location_data_at_Mut(cache, province, municipality, outcome, t) ==
    LET location_data == [k \in MetricKinds |-> safe_get_data(k \in outcome.failed, k)]
        entry == [written_at |-> t, data |-> location_data]
        key == cache_key(province, municipality)
    IN  IF outcome.raised THEN cache
        ELSE [cache EXCEPT !.nasa_data = update(@, [k \in {key} |-> entry])]

\* refresh_location_data(province, municipality) finishing at time t
refresh_location_data_at(cache, province, municipality, outcome, t) ==
    LET location_data == [k \in MetricKinds |-> safe_get_data(k \in outcome.failed, k)]
        entry == [written_at |-> t,
                  data |-> IF outcome.raised THEN fallback_data ELSE location_data]
        key == cache_key(province, municipality)
    IN  [cache EXCEPT !.nasa_data = update(@, [k \in {key} |-> entry])]

\* is_data_stale() called at time t
is_data_stale_at(cache, t) ==
    IF cache.last_updated = -1 THEN TRUE
    ELSE (t - cache.last_updated) * 900 > 1800

\* get_nasa_data_for_location called at time t: the cache it leaves
get_nasa_data_for_location_at(cache, province, municipality, t) ==
    IF cache_key(province, municipality) \notin DOMAIN cache.nasa_data
           \/ is_data_stale_at(cache, t)
    THEN refresh_location_data_at(cache, province, municipality, Succeeded, t)
    ELSE cache

\* refresh_tasks of refresh_all_data, as cache keys: each province and its
\* first two municipalities
refresh_tasks ==
    LET keys(p) ==
            LET muns == get_municipalities_by_province(p)
            IN  {cache_key(p, "")} \cup
                    {cache_key(p, muns[i]) : i \in {j \in 1..Len(muns) : j <= 2}}
    IN  UNION {keys(provinces_to_refresh[i]) :
                  i \in {j \in 1..Len(provinces_to_refresh) : j <= MaxProvinces}}

\* refresh_all_data run to its end at time t, every task succeeding
refresh_all_data_at(cache, t) ==
    LET entry == [written_at |-> t, data |-> [k \in MetricKinds |-> "service"]]
    IN  [nasa_data |-> update(cache.nasa_data, [k \in refresh_tasks |-> entry]),
         last_updated |-> t]

\* What get_nasa_data_for_location returned at time t for the key.
Served(cache, province, municipality, t, stale) ==
    [kind |-> "entry", key |-> cache_key(province, municipality),
     written_at |-> cache.nasa_data[cache_key(province, municipality)].written_at,
     at |-> t, stale |-> stale]

\* The locations requested: a municipality refresh_all_data refreshes and one
\* it does not.
TimedLocations == {<<"LUANDA", "BELAS">>, <<"LUANDA", "INGOMBOTA">>}

\* the state once startup_event has run refresh_all_data
InitFresh ==
    /\ IdleEngine /\ IdleLevel /\ IdleAgg /\ IdleDash
    /\ now = 0
    /\ timed_cache = refresh_all_data_at([nasa_data |-> <<>>, last_updated |-> -1], 0)
    /\ tasks = <<>>
    /\ served = [kind |-> "none"]

Tick ==
    /\ now < MaxTime
    /\ now' = now + 1
    /\ UNCHANGED <<timed_cache, tasks, served>>
    /\ UNCHANGED <<engineVars, levelVars, aggVars, dashVars>>

\* GET /api/{province}/{municipality}: the data is fetched for the response,
\* then the background task refreshes the location
GetMunicipalityDataTimed ==
    \E loc \in TimedLocations :
        LET fetched == get_nasa_data_for_location_at(timed_cache, loc[1], loc[2], now)
        IN  /\ served' = Served(fetched, loc[1], loc[2], now,
                                is_data_stale_at(timed_cache, now))
            /\ timed_cache' =
                  refresh_location_data_at(fetched, loc[1], loc[2], Succeeded, now)
            /\ UNCHANGED <<now, tasks>>
            /\ UNCHANGED <<engineVars, levelVars, aggVars, dashVars>>

\* POST /api/dashboard: the data is fetched for the response, a dashboard
\* that was generated sets last_updated, then the background task runs
\* refresh_all_data
GetUnifiedDashboardTimed ==
    \E loc \in TimedLocations, failing \in BOOLEAN :
        LET fetched == get_nasa_data_for_location_at(timed_cache, loc[1], loc[2], now)
            cached == IF failing THEN fetched
                      ELSE [fetched EXCEPT !.last_updated = now]
        IN  /\ served' = Served(fetched, loc[1], loc[2], now,
                                is_data_stale_at(timed_cache, now))
            /\ timed_cache' = refresh_all_data_at(cached, now)
            /\ UNCHANGED <<now, tasks>>
            /\ UNCHANGED <<engineVars, levelVars, aggVars, dashVars>>

NextFresh == Tick \/ GetMunicipalityDataTimed \/ GetUnifiedDashboardTimed

SpecFresh == InitFresh /\ [][NextFresh]_vars

(***************************************************************************)
(* refresh_all_data at startup: the refresh_location_data coroutines it    *)
(* gathers finish one by one, in any order and with any outcome.           *)
(***************************************************************************)
InitRefresh ==
    IdleEngine /\ IdleLevel /\ IdleAgg /\ IdleDash /\ IdleCache

\* refresh_all_data up to asyncio.gather: one task per location
StartRefreshAll ==
    /\ tasks = <<>>
    /\ timed_cache.last_updated = -1
    /\ tasks' = [k \in refresh_tasks |-> "pending"]
    /\ UNCHANGED <<now, timed_cache, served>>
    /\ UNCHANGED <<engineVars, levelVars, aggVars, dashVars>>

\* gather returning as soon as one task is done
CompleteRefreshAll_Mut ==
    /\ tasks # <<>>
    /\ timed_cache.last_updated = -1
    /\ \E k \in DOMAIN tasks : tasks[k] = "done"
    /\ timed_cache' = [timed_cache EXCEPT !.last_updated = now]
    /\ UNCHANGED <<now, tasks, served>>
    /\ UNCHANGED <<engineVars, levelVars, aggVars, dashVars>>

\* one gathered refresh_location_data running to its end
FinishRefreshLocation ==
    \E key \in DOMAIN tasks, outcome \in Outcomes :
        /\ tasks[key] = "pending"
        /\ timed_cache' =
              refresh_location_data_at(timed_cache, key[1], key[2], outcome, now)
        /\ tasks' = [tasks EXCEPT ![key] = "done"]
        /\ UNCHANGED <<now, served>>
        /\ UNCHANGED <<engineVars, levelVars, aggVars, dashVars>>

\* gather(*refresh_tasks, return_exceptions=True) returns once every task is
\* done; then last_updated is set
CompleteRefreshAll ==
    /\ tasks # <<>>
    /\ timed_cache.last_updated = -1
    /\ \A k \in DOMAIN tasks : tasks[k] = "done"
    /\ timed_cache' = [timed_cache EXCEPT !.last_updated = now]
    /\ UNCHANGED <<now, tasks, served>>
    /\ UNCHANGED <<engineVars, levelVars, aggVars, dashVars>>

NextRefresh == StartRefreshAll \/ FinishRefreshLocation \/ CompleteRefreshAll

SpecRefresh == InitRefresh /\ [][NextRefresh]_vars

\* The event loop runs every coroutine that can run.
SpecRefreshFair == SpecRefresh /\ WF_vars(NextRefresh)

(***************************************************************************)
(* get_location_alerts of app/main.py and the season tables it and the     *)
(* data service read.                                                      *)
(***************************************************************************)
Months == 1..12

\* get_current_season() in the given month
get_current_season(month) ==
    IF month \in {1, 2, 3, 4} THEN "RAINY_SEASON"
    ELSE IF month \in {5, 6, 7, 8, 9} THEN "DRY_SEASON"
    ELSE "TRANSITION_SEASON"

\* RealNASADataService._initialize_seasonal_patterns: the months of each
\* season
seasonal_patterns ==
    [rainy_season |-> [months |-> {1, 2, 3, 4, 11, 12}],
     dry_season |-> [months |-> {5, 6, 7, 8, 9, 10}]]

\* f"HIGH_{risk_type.upper()}_RISK"
HighRiskType(risk_type) ==
    CASE risk_type = "flood" -> "HIGH_FLOOD_RISK"
      [] risk_type = "fire" -> "HIGH_FIRE_RISK"
      [] risk_type = "drought" -> "HIGH_DROUGHT_RISK"
      [] risk_type = "cyclone" -> "HIGH_CYCLONE_RISK"
      [] risk_type = "air_quality" -> "HIGH_AIR_QUALITY_RISK"
      [] risk_type = "water_quality" -> "HIGH_WATER_QUALITY_RISK"
      [] risk_type = "pollution" -> "HIGH_POLLUTION_RISK"

\* create_alert: type and severity of the alert
create_alert(risk_data, alert_type) ==
    [type |-> alert_type, severity |-> risk_data.overall_risk.level]

\* check_environmental_alerts
check_environmental_alerts(risk_data) ==
    LET env_risks == risk_data.detailed_risks
    IN  (IF env_risks["air_quality"].score > 7000
         THEN <<[type |-> "POOR_AIR_QUALITY", severity |-> "HIGH"]>> ELSE <<>>)
        \o (IF env_risks["water_quality"].score > 7000
            THEN <<[type |-> "WATER_POLLUTION", severity |-> "MEDIUM"]>> ELSE <<>>)

\* check_seasonal_alerts in the given month
check_seasonal_alerts(month) ==
    LET current_season == get_current_season(month)
    IN  IF current_season = "RAINY_SEASON"
        THEN <<[type |-> "RAINY_SEASON_ADVISORY", severity |-> "MEDIUM"]>>
        ELSE IF current_season = "DRY_SEASON"
        THEN <<[type |-> "DRY_SEASON_ADVISORY", severity |-> "MEDIUM"]>>
        ELSE <<>>

\* get_location_alerts(province, municipality, risk_assessment) in the given
\* month
get_location_alerts(risk_assessment, month) ==
    LET overall_risk == risk_assessment.overall_risk
        high(risk_type) ==
            risk_assessment.detailed_risks[risk_type].level \in {"HIGH", "CRITICAL"}
        raised == SelectSeq(RiskTypes, high)
        alerts ==
            (IF overall_risk.level \in {"HIGH", "CRITICAL"}
             THEN <<create_alert(risk_assessment, "HIGH_RISK_AREA")>> ELSE <<>>)
            \o [i \in 1..Len(raised) |->
                   create_alert(risk_assessment, HighRiskType(raised[i]))]
            \o check_environmental_alerts(risk_assessment)
            \o check_seasonal_alerts(month)
        critical(a) == a.severity \in {"HIGH", "CRITICAL"}
    IN  [active_alerts |-> alerts,
         total_alerts |-> Len(alerts),
         critical_alerts |-> Len(SelectSeq(alerts, critical))]

\* Category assessments with the level of their score.
AlertSamples ==
    { [score |-> 1000, confidence |-> 90, data_quality |-> "real",
       level |-> get_risk_level(Q(1000, 100))],
      [score |-> 6500, confidence |-> 85, data_quality |-> "real",
       level |-> get_risk_level(Q(6500, 100))],
      [score |-> 7500, confidence |-> 80, data_quality |-> "simulated",
       level |-> get_risk_level(Q(7500, 100))],
      [score |-> 9800, confidence |-> 100, data_quality |-> "real",
       level |-> get_risk_level(Q(9800, 100))] }

\* The dicts `risks` of the assessments alerts are raised for: flood and
\* air_quality hold any sample, the other categories share one.
AlertRisks ==
    { [k \in RiskTypeSet |->
          CASE k = "flood" -> f [] k = "air_quality" -> a [] OTHER -> t] :
        f \in AlertSamples, a \in AlertSamples, t \in AlertSamples }

\* what calculate_comprehensive_risk returns for risks
risk_assessment_of(risks) ==
    [overall_risk |-> comprehensive_overall_risk(risks), detailed_risks |-> risks]

InitAlerts == IdleEngine /\ IdleLevel /\ IdleAgg /\ IdleDash /\ IdleCache

GetLocationAlerts ==
    \E risks \in AlertRisks, month \in Months :
        /\ last' = [op |-> "get_location_alerts", args |-> <<risks, month>>,
                    ret |-> get_location_alerts(risk_assessment_of(risks), month)]
        /\ UNCHANGED <<historical_data, first>>
        /\ UNCHANGED <<levelVars, aggVars, dashVars, cacheVars>>

\* the season of a month, as the dashboard and as the data service see it
CurrentSeason ==
    \E month \in Months :
        /\ last' = [op |-> "get_current_season", args |-> <<month>>,
                    ret |-> get_current_season(month),
                    rainy |-> month \in seasonal_patterns.rainy_season.months,
                    dry |-> month \in seasonal_patterns.dry_season.months]
        /\ UNCHANGED <<historical_data, first>>
        /\ UNCHANGED <<levelVars, aggVars, dashVars, cacheVars>>

NextAlerts == GetLocationAlerts \/ CurrentSeason

SpecAlerts == InitAlerts /\ [][NextAlerts]_vars

(***************************************************************************)
(* The routes of app/main.py in the order the decorators register them,    *)
(* requests dispatched to the first route that matches, and the two        *)
(* listings of a province's municipalities.                                *)
(***************************************************************************)
\* the path parameters of the routes
PathParams == {"{province}", "{municipality}", "{province_id}"}

\* @app.get / @app.post, in source order; a path is its segments
Routes ==
    << [method |-> "GET", path |-> <<>>, endpoint |-> "root"],
       [method |-> "GET", path |-> <<"api", "{province}", "{municipality}">>,
        endpoint |-> "get_municipality_data"],
       [method |-> "GET", path |-> <<"api", "{province}">>,
        endpoint |-> "get_province_data"],
       [method |-> "GET", path |-> <<"api", "municipalities">>,
        endpoint |-> "get_all_municipalities"],
       [method |-> "POST", path |-> <<"api", "dashboard">>,
        endpoint |-> "get_unified_dashboard"],
       [method |-> "GET", path |-> <<"api", "provinces">>,
        endpoint |-> "get_all_provinces"],
       [method |-> "GET", path |-> <<"api", "provinces", "{province_id}", "municipalities">>,
        endpoint |-> "get_province_municipalities"],
       [method |-> "GET", path |-> <<"api", "status">>,
        endpoint |-> "get_system_status"] >>

\* the route's path matches the request's: a parameter takes any segment
PathMatches(route, path) ==
    /\ Len(route.path) = Len(path)
    /\ \A i \in 1..Len(path) : route.path[i] \in PathParams \/ route.path[i] = path[i]

\* the values of the path parameters, in order
path_params(route, path) ==
    LET isParam(i) == route.path[i] \in PathParams
        idx == SelectSeq([i \in 1..Len(path) |-> i], isParam)
    IN  [i \in 1..Len(idx) |-> path[idx[i]]]

\* The router: the first route matching path and method handles the
\* request; a path that only routes of another method match is answered
\* 405, a path no route matches 404.
dispatch(method, path) ==
    LET full == {i \in 1..Len(Routes) :
                    PathMatches(Routes[i], path) /\ Routes[i].method = method}
        partial == {i \in 1..Len(Routes) : PathMatches(Routes[i], path)}
        first_full == CHOOSE i \in full : \A j \in full : i <= j
    IN  IF full # {}
        THEN [endpoint |-> Routes[first_full].endpoint,
              params |-> path_params(Routes[first_full], path)]
        ELSE IF partial # {} THEN [endpoint |-> "method_not_allowed", params |-> <<>>]
        ELSE [endpoint |-> "not_found", params |-> <<>>]

\* LuandaGeoData.get_municipalities_by_province with the existence test
\* inverted
LuandaGeoData_get_municipalities_by_province_Mut(province_id) ==
    IF province_id \in DOMAIN provinces
    THEN LET known(mun_id) == mun_id \notin municipalities
         IN  SelectSeq(provinces[province_id].municipalities, known)
    ELSE <<>>

\* LuandaGeoData.get_municipalities_by_province(province_id): the ids of the
\* Municipality objects it returns
LuandaGeoData_get_municipalities_by_province(province_id) ==
    IF province_id \in DOMAIN provinces
    THEN LET known(mun_id) == mun_id \in municipalities
         IN  SelectSeq(provinces[province_id].municipalities, known)
    ELSE <<>>

\* What the handlers that list the tables return.
Listing(endpoint, listed) ==
    [kind |-> "listing", status_code |-> 200, endpoint |-> endpoint, listed |-> listed]

\* GET /api/provinces/{province_id}/municipalities
get_province_municipalities(cache, province_id) ==
    LET province_upper == upper(province_id)
    IN  IF province_upper \notin DOMAIN provinces
        THEN Handled(HTTPException(404), cache, NoTask)
        ELSE Handled(Listing("get_province_municipalities",
                             get_municipalities_by_province(province_upper)),
                     cache, NoTask)

\* the endpoint the router chose, called
call_endpoint(cache, route, body, elapsed, failing) ==
    CASE route.endpoint = "get_municipality_data" ->
            get_municipality_data(cache, route.params[1], route.params[2], elapsed,
                                  failing)
      [] route.endpoint = "get_province_data" ->
            get_province_data(cache, route.params[1], elapsed, failing)
      [] route.endpoint = "get_unified_dashboard" ->
            get_unified_dashboard(cache, body[1], body[2], elapsed, failing)
      [] route.endpoint = "get_province_municipalities" ->
            get_province_municipalities(cache, route.params[1])
      [] route.endpoint = "method_not_allowed" ->
            Handled(HTTPException(405), cache, NoTask)
      [] route.endpoint = "not_found" ->
            Handled(HTTPException(404), cache, NoTask)
      [] OTHER -> Handled(Listing(route.endpoint, <<>>), cache, NoTask)

\* The paths requested: the root, the fixed paths under /api, a province
\* and a municipality as the dashboard requests name them, and a path of no
\* route.
RequestPaths ==
    {<<>>, <<"health">>, <<"api", "provinces", "luanda", "municipalities">>,
     <<"api", "luanda", "viana">>}
        \cup {<<"api", s>> : s \in {"luanda", "municipalities", "provinces", "status",
                                     "dashboard"}}

\* The requests: a GET of each path, a POST of /api/dashboard with a body
\* and a POST of a path that has only a GET route
Requests ==
    {[method |-> "GET", path |-> p, body |-> <<"", "">>] : p \in RequestPaths}
        \cup {[method |-> "POST", path |-> <<"api", "dashboard">>,
               body |-> <<"ZAIRE", "">>],
              [method |-> "POST", path |-> <<"api", "status">>, body |-> <<"", "">>]}

\* The failures of a handler's try block that the routed requests meet.
RoutedFailures == {"none", "get_location_alerts"}

InitRoutes == IdleEngine /\ IdleLevel /\ IdleAgg /\ IdleDash /\ IdleCache

\* a request is routed and its endpoint runs, then the background task
HandleRequest ==
    \E request \in Requests, elapsed \in BOOLEAN, failing \in RoutedFailures :
        LET route == dispatch(request.method, request.path)
            handled == call_endpoint(data_cache, route, request.body, elapsed, failing)
        IN  /\ last' = [op |-> "request", args |-> <<request.method, request.path>>,
                        ret |-> route.endpoint]
            /\ resp' = handled.resp
            /\ data_cache' = run_background(handled.cache, handled.background)
            /\ UNCHANGED <<historical_data, first>>
            /\ UNCHANGED <<levelVars, aggVars, cacheVars>>

\* a province's municipalities listed both ways
ListMunicipalities ==
    \E province \in DOMAIN provinces \cup {"ATLANTIS"} :
        /\ last' = [op |-> "get_municipalities_by_province", args |-> <<province>>,
                    ret |-> get_municipalities_by_province(province),
                    geo |-> LuandaGeoData_get_municipalities_by_province(province)]
        /\ UNCHANGED <<historical_data, first>>
        /\ UNCHANGED <<levelVars, aggVars, dashVars, cacheVars>>

NextRoutes == HandleRequest \/ ListMunicipalities

SpecRoutes == InitRoutes /\ [][NextRoutes]_vars

(***************************************************************************)
(* The advisory helpers of the engine applied on their own, to any score.  *)
(***************************************************************************)
Categories ==
    {"flood", "fire", "drought", "air_quality", "water_quality", "population"}

\* self._get_<category>_basic_needs(score)
get_basic_needs(category, score) ==
    CASE category = "flood" -> get_flood_basic_needs(score)
      [] category = "fire" -> get_fire_basic_needs(score)
      [] category = "drought" -> get_drought_basic_needs(score)
      [] category = "air_quality" -> get_air_quality_basic_needs(score)
      [] category = "water_quality" -> get_water_quality_basic_needs(score)
      [] category = "population" -> get_population_basic_needs(score)

\* The scores the helpers are applied to: every half point from -10 to 110,
\* below every band and above every ceiling.
HelperScores == {Q(h, 2) : h \in -20..220}

InitAdvice == IdleEngine /\ IdleLevel /\ IdleAgg /\ IdleDash /\ IdleCache

GetBasicNeeds ==
    \E category \in Categories, score \in HelperScores :
        /\ last' = [op |-> "get_basic_needs", args |-> <<category, score>>,
                    ret |-> get_basic_needs(category, score)]
        /\ UNCHANGED <<historical_data, first>>
        /\ UNCHANGED <<levelVars, aggVars, dashVars, cacheVars>>

NextAdvice == GetBasicNeeds

SpecAdvice == InitAdvice /\ [][NextAdvice]_vars

(***************************************************************************)
(* Properties of the engine, checked under Spec.                           *)
(***************************************************************************)
\* The ceiling the specification gives each category, in hundredths.
Ceiling(op) == IF op = "calculate_flood_risk" THEN 9800 ELSE 9500

\* C1: for inputs inside the data model's ranges every scoring method
\* returns a score with 0 <= score <= ceiling, the ceiling being 98 for
\* flood and 95 for the others.
C1_ScoreWithinCeiling ==
    (last.op \in ScoringOps /\ ValidArgs(last.op, last.args)) =>
        /\ last.ret.raised = "none"
        /\ last.ret.score >= 0
        /\ last.ret.score <= Ceiling(last.op)

\* C2: no scoring method raises past its own boundary: whatever the metric
\* dict holds, the method returns an assessment.
C2_NoRaisePastBoundary ==
    last.op \in ScoringOps => last.ret.raised = "none"

\* C5: the level of every per-category assessment is the five-band mapping
\* (<20, <40, <60, <80, >=80) of that assessment's score.
C5_LevelIsFiveBand ==
    (last.op \in ScoringOps /\ last.ret.raised = "none") =>
        /\ last.ret.level \in {"VERY_LOW", "LOW", "MEDIUM", "HIGH", "CRITICAL"}
        /\ last.ret.level = get_risk_level(Q(last.ret.score, 100))

\* C6: a scoring call leaves historical_data as it was; only
\* update_historical_data changes it.
C6_ScoringLeavesHistory ==
    [][/\ last'.op \in ScoringOps => historical_data' = historical_data
       /\ historical_data' # historical_data =>
              last'.op = "update_historical_data"]_vars

C6_Witness ==
    /\ last.op \in ScoringOps
    /\ Len(historical_data["rainfall"]) > 0

\* C7: two calls of a scoring method with the same arguments return the same
\* assessment, whatever was called in between.
C7_Deterministic ==
    (first.op \in ScoringOps /\ last.op = first.op /\ last.args = first.args) =>
        last.ret = first.ret

C7_Witness ==
    /\ first.op = "calculate_drought_risk"
    /\ last.op = "calculate_drought_risk"
    /\ last.args = first.args
    /\ first.ret.raised = "none"
    /\ Len(historical_data["rainfall"]) > 0

\* s is t or t with elements appended at its end
IsPrefix(s, t) == Len(s) <= Len(t) /\ SubSeq(t, 1, Len(s)) = s

FiveSeries == {"rainfall", "fires", "air_quality", "water_quality", "population"}

\* C8: every historical series only grows, by appending at its end; an
\* update_historical_data call appends exactly one element to each of the
\* five series it records, which therefore always have equal length.
C8_AppendOnly ==
    /\ [][/\ \A k \in Series : IsPrefix(historical_data[k], historical_data'[k])
          /\ last'.op = "update_historical_data" /\ last' # last =>
                \A k \in FiveSeries :
                    Len(historical_data'[k]) = Len(historical_data[k]) + 1]_vars
    /\ [](\A j, k \in FiveSeries :
              Len(historical_data[j]) = Len(historical_data[k]))

C8_Witness ==
    /\ Len(historical_data["rainfall"]) >= 2
    /\ historical_data["rainfall"][1] # historical_data["rainfall"][2]

(***************************************************************************)
(* Properties of get_risk_level, checked under SpecLevel.                  *)
(***************************************************************************)
LevelRank(l) ==
    CASE l = "VERY_LOW" -> 0
      [] l = "LOW" -> 1
      [] l = "MEDIUM" -> 2
      [] l = "HIGH" -> 3
      [] l = "CRITICAL" -> 4

\* C4: get_risk_level gives every score in [0,100] exactly one level, the
\* one whose band holds it (score < 20 VERY_LOW, 20 <= score < 40 LOW,
\* 40 <= score < 60 MEDIUM, 60 <= score < 80 HIGH, score >= 80 CRITICAL), and
\* a higher score never gets a lower level.
C4_LevelTotalMonotonic ==
    lvl.lb # "none" =>
        LET x == lvl.b
            k == ScoreSteps
        IN  /\ lvl.lb \in {"VERY_LOW", "LOW", "MEDIUM", "HIGH", "CRITICAL"}
            /\ lvl.lb = "VERY_LOW" <=> x < 20 * k
            /\ lvl.lb = "LOW" <=> (20 * k <= x /\ x < 40 * k)
            /\ lvl.lb = "MEDIUM" <=> (40 * k <= x /\ x < 60 * k)
            /\ lvl.lb = "HIGH" <=> (60 * k <= x /\ x < 80 * k)
            /\ lvl.lb = "CRITICAL" <=> 80 * k <= x
            /\ lvl.a <= lvl.b => LevelRank(lvl.la) <= LevelRank(lvl.lb)

\* the score 20 is LOW, and a score just under it VERY_LOW
C4_Witness ==
    /\ lvl.a = 20 * ScoreSteps - 1 /\ lvl.la = "VERY_LOW"
    /\ lvl.b = 20 * ScoreSteps /\ lvl.lb = "LOW"

(***************************************************************************)
(* Properties of calculate_comprehensive_risk, checked under SpecAgg.      *)
(***************************************************************************)
\* sum of score_i * confidence_i over the seven categories, in 1/10000
WeightedSum(risks) ==
    LET w(k) == risks[k].score * risks[k].confidence
    IN  w("flood") + w("fire") + w("drought") + w("cyclone") + w("air_quality")
            + w("water_quality") + w("pollution")

\* sum of confidence_i over the seven categories, in hundredths
ConfidenceSum(risks) ==
    LET c(k) == risks[k].confidence
    IN  c("flood") + c("fire") + c("drought") + c("cyclone") + c("air_quality")
            + c("water_quality") + c("pollution")

AllFiftyFull(risks) ==
    \A k \in RiskTypeSet : risks[k].score = 5000 /\ risks[k].confidence = 100

\* C9 as stated: the overall record's score is the mean of
\* score_i * confidence_i and its confidence the mean of confidence_i.
C9_MeanExact ==
    agg.ret.level # "none" =>
        /\ agg.ret.score * 70000 = WeightedSum(agg.risks)
        /\ agg.ret.confidence * 7 = ConfidenceSum(agg.risks)

\* C9 amended: the overall record's score is the mean of
\* score_i * confidence_i rounded to the nearest integer, and its confidence
\* the mean of confidence_i rounded to two decimals; when every category
\* scores 50 with confidence 1.0 the score is 50 and the confidence 1.0.
C9_MeanRounded ==
    agg.ret.level # "none" =>
        /\ 2 * Abs(agg.ret.score * 70000 - WeightedSum(agg.risks)) <= 70000
        /\ 2 * Abs(agg.ret.confidence * 7 - ConfidenceSum(agg.risks)) <= 7
        /\ AllFiftyFull(agg.risks) =>
               agg.ret.score = 50 /\ agg.ret.confidence = 100

\* a mean that is no integer: 19.6 reported as 20, confidence 0.7
C9_Witness ==
    /\ agg.ret.level # "none"
    /\ \A k \in RiskTypeSet :
           agg.risks[k].score = 2800 /\ agg.risks[k].confidence = 70
    /\ agg.ret.score = 20
    /\ agg.ret.confidence = 70

\* C10: in every overall_risk record the level is the five-band mapping of
\* the score reported in the same record.
C10_LevelOfReportedScore ==
    agg.ret.level # "none" => agg.ret.level = get_risk_level(Q(agg.ret.score, 1))

(***************************************************************************)
(* Properties of the dashboard endpoints, checked under SpecDash.          *)
(***************************************************************************)
\* C3: when a step of the risk, environment or alert computation raises for
\* a validated location, the response of a dashboard endpoint is the
\* complete fallback dashboard: status 200, every top-level section present
\* and fallback_mode true; and a response past validation is never an error
\* nor a dashboard with a section missing.
C3_FallbackIsComplete ==
    /\ (resp.kind # "none" /\ resp.raised # "none") =>
           /\ resp.kind = "dashboard"
           /\ TopLevelSections \subseteq resp.sections
           /\ resp.fallback_mode
    /\ (resp.kind # "none" /\ resp.status_code \notin {400, 404}) =>
           /\ resp.kind = "dashboard"
           /\ TopLevelSections \subseteq resp.sections

\* the risk computation raised while a dashboard of LUANDA/VIANA was being
\* built: the fallback dashboard is the answer and nothing was cached
C3_Witness ==
    /\ resp.kind = "dashboard"
    /\ resp.raised = "calculate_comprehensive_risk"
    /\ resp.fallback_mode
    /\ resp.location = <<"MUNICIPALITY", "VIANA">>
    /\ cache_key("LUANDA", "VIANA") \notin data_cache.risk_assessments

(***************************************************************************)
(* More properties of calculate_comprehensive_risk, checked under SpecAgg. *)
(***************************************************************************)
\* the place of a category in the declaration order of `risks`
DeclIndex(k) == CHOOSE i \in 1..Len(RiskTypes) : RiskTypes[i] = k

\* category j ranks before category k: a higher raw score, or the same
\* score and an earlier declaration
RanksBefore(risks, j, k) ==
    \/ risks[j].score > risks[k].score
    \/ risks[j].score = risks[k].score /\ DeclIndex(j) < DeclIndex(k)

\* C11: primary_threats lists three categories, each ranking before the
\* next and before every category left out, where a category ranks before
\* another when its raw score is higher or, the scores being equal, when it
\* is declared earlier.
C11_PrimaryThreatsTopThree ==
    agg.ret.level # "none" =>
        LET threats == agg.ret.primary_threats
            listed == {threats[i] : i \in 1..Len(threats)}
        IN  /\ Len(threats) = 3
            /\ listed \subseteq RiskTypeSet
            /\ \A i \in 1..2 : RanksBefore(agg.risks, threats[i], threats[i + 1])
            /\ \A k \in RiskTypeSet \ listed : RanksBefore(agg.risks, threats[3], k)

\* ties inside the list and at its end: fire 98 and four categories at 50,
\* of which the two declared first are listed
C11_Witness ==
    /\ agg.ret.level # "none"
    /\ agg.risks["fire"].score = 9800
    /\ agg.risks["drought"].score = 5000 /\ agg.risks["cyclone"].score = 5000
    /\ agg.risks["flood"].score = 5000 /\ agg.risks["pollution"].score = 5000
    /\ agg.ret.primary_threats = <<"fire", "flood", "drought">>

\* C12: the trend is "increasing" when the overall score (the mean of
\* score_i * confidence_i) is above 60, "stable" when it is above 30 and at
\* most 60, and "decreasing" when it is at most 30; exactly one applies.
C12_TrendBands ==
    agg.ret.level # "none" =>
        LET w == WeightedSum(agg.risks)
        IN  /\ agg.ret.trend \in {"increasing", "stable", "decreasing"}
            /\ agg.ret.trend = "increasing" <=> w > 60 * 70000
            /\ agg.ret.trend = "stable" <=> (w > 30 * 70000 /\ w <= 60 * 70000)
            /\ agg.ret.trend = "decreasing" <=> w <= 30 * 70000

\* an overall score of exactly 60 is stable
C12_Witness ==
    /\ agg.ret.level # "none"
    /\ WeightedSum(agg.risks) = 60 * 70000
    /\ agg.ret.trend = "stable"

\* the number of categories whose assessment has data_quality "real"
RealCount(risks) ==
    Cardinality({k \in RiskTypeSet : risks[k].data_quality = "real"})

\* C13 as stated: data_quality_percentage equals real / N * 100 for the N = 7
\* categories, and lies in [0,100] (the field is held in tenths).
C13_QualityExact ==
    agg.ret.level # "none" =>
        /\ agg.ret.data_quality_percentage * 7 = RealCount(agg.risks) * 1000
        /\ agg.ret.data_quality_percentage >= 0
        /\ agg.ret.data_quality_percentage <= 1000

\* C13 amended: data_quality_percentage equals real / N * 100 rounded to one
\* decimal, and lies in [0,100].
C13_QualityRounded ==
    agg.ret.level # "none" =>
        /\ 2 * Abs(agg.ret.data_quality_percentage * 7 - RealCount(agg.risks) * 1000) <= 7
        /\ agg.ret.data_quality_percentage >= 0
        /\ agg.ret.data_quality_percentage <= 1000

\* three real assessments of seven: 42.857... is reported as 42.9
C13_Witness ==
    /\ agg.ret.level # "none"
    /\ RealCount(agg.risks) = 3
    /\ \E k \in RiskTypeSet : agg.risks[k].data_quality = "simulated"
    /\ agg.ret.data_quality_percentage = 429

IsRealData(d) == "is_real_data" \in DOMAIN d /\ d["is_real_data"].v = 1

\* C14: every assessment a category function returns carries a data_quality
\* among real, simulated and fallback, and it is "real" exactly when the
\* is_real_data flag of its input metrics is true.
C14_DataQualityEchoesInput ==
    (last.op \in ScoringOps /\ last.ret.raised = "none") =>
        /\ "data_quality" \in DOMAIN last.ret
        /\ last.ret.data_quality \in {"real", "simulated", "fallback"}
        /\ last.ret.data_quality = "real" <=>
               \A i \in 1..Len(last.args) : IsRealData(last.args[i])

\* C16: a negative rainfall, count or other metric is treated as 0, so that
\* no category function returns a negative score.
C16_NoNegativeScore ==
    (last.op \in ScoringOps /\ last.ret.raised = "none") => last.ret.score >= 0

\* C17: the flood score has the floor of its piecewise base: at most 25 mm of
\* rainfall scores at least 10, and zero rainfall with zero for every other
\* input scores exactly 10, level VERY_LOW.
C17_FloodFloor ==
    (/\ last.op = "calculate_flood_risk"
     /\ ValidArgs(last.op, last.args)
     /\ last.ret.raised = "none"
     /\ last.args[1]["rainfall_mm"].v <= 2500) =>
        /\ last.ret.score >= 1000
        /\ (last.args[1]["rainfall_mm"].v = 0 /\ last.args[2]["turbidity_NTU"].v = 0) =>
               (last.ret.score = 1000 /\ last.ret.level = "VERY_LOW")

\* C18: with fire_count > 0 the fire score starts from
\* 85 + min(15, 3 * fire_count) and the confidence is 0.95; with
\* fire_count = 0 the confidence is 0.75; the score is capped at 95.
C18_FireBranches ==
    (/\ last.op = "calculate_fire_risk"
     /\ ValidArgs(last.op, last.args)
     /\ last.ret.raised = "none") =>
        LET fire_count == last.args[1]["fire_count"].v
            capped3 == IF 300 * fire_count < 1500 THEN 300 * fire_count ELSE 1500
            base == IF 8500 + capped3 < 9500 THEN 8500 + capped3 ELSE 9500
        IN  /\ last.ret.score <= 9500
            /\ fire_count > 0 => (last.ret.score >= base /\ last.ret.confidence = 95)
            /\ fire_count = 0 => last.ret.confidence = 75

\* the dict d with its value under k replaced by that of e
WithValueOf(d, k, e) == [j \in DOMAIN d |-> IF j = k THEN e[j] ELSE d[j]]

\* the arguments b raise the severity-driving input of the arguments a, or
\* leave it, and hold every other input as it is in a
DriverRaised(op, a, b) ==
    LET raised(i, k) ==
            /\ IsNum(a[i], k) /\ IsNum(b[i], k)
            /\ a[i][k].v <= b[i][k].v
            /\ WithValueOf(a[i], k, b[i]) = b[i]
    IN  CASE op = "calculate_flood_risk" -> raised(1, "rainfall_mm") /\ a[2] = b[2]
          [] op = "calculate_fire_risk" ->
                 raised(1, "fire_count") \/ raised(1, "avg_intensity")
          [] op = "calculate_air_quality_risk" -> raised(1, "AQI")
          [] op = "calculate_water_quality_risk" -> raised(1, "turbidity_NTU")
          [] op = "calculate_population_pressure" -> raised(1, "population")
          [] OTHER -> FALSE

\* C15: each category score is non-decreasing in its severity-driving input
\* with the other inputs held fixed: flood in rainfall, fire in fire_count
\* and in intensity, air quality in AQI, water quality in turbidity,
\* population pressure in population.
C15_ScoreMonotonic ==
    (/\ first.op \in ScoringOps /\ last.op = first.op
     /\ first.ret.raised = "none" /\ last.ret.raised = "none"
     /\ DriverRaised(first.op, first.args, last.args)) =>
        first.ret.score <= last.ret.score

\* two water-quality calls inside the ranges that differ in turbidity only,
\* the second scoring higher
C15_Witness ==
    /\ first.op = "calculate_water_quality_risk" /\ last.op = first.op
    /\ ValidArgs(first.op, first.args) /\ ValidArgs(last.op, last.args)
    /\ DriverRaised(first.op, first.args, last.args)
    /\ first.ret.score < last.ret.score

\* the band of a reported score (hundredths): >= 75, >= 50, >= 20, else
ScoreBand(score) ==
    IF score >= 7500 THEN 3
    ELSE IF score >= 5000 THEN 2
    ELSE IF score >= 2000 THEN 1
    ELSE 0

\* the advisory texts of an assessment
AdvisoryTexts(ret) ==
    <<ret.extras.recommendations, ret.extras.community_impact,
      ret.extras.basic_needs>>

\* two calls of one category both returned an assessment, with scores in
\* the same band
SameCategoryAndBand ==
    /\ first.op \in ScoringOps /\ last.op = first.op
    /\ first.ret.raised = "none" /\ last.ret.raised = "none"
    /\ ScoreBand(first.ret.score) = ScoreBand(last.ret.score)

\* the pH a water-quality call was given is outside [6.5, 8.5]
PHOutOfRange(args) == args[1]["pH"].v < 650 \/ args[1]["pH"].v > 850

Sectors == {"water", "energy", "hospitals", "food", "shelter", "transportation"}

\* C21: for every category and every score, below 20 and above the ceiling
\* included, basic_needs has exactly the six keys water, energy, hospitals,
\* food, shelter and transportation, each with a non-empty status.
C21_BasicNeedsSixSectors ==
    last.op = "get_basic_needs" =>
        /\ DOMAIN last.ret = Sectors
        /\ \A k \in DOMAIN last.ret : last.ret[k] # ""

\* the fire helper applied to a score of 5, below every band, returned the
\* six sectors
C21_Witness ==
    /\ last.op = "get_basic_needs"
    /\ last.args = <<"fire", Q(10, 2)>>
    /\ DOMAIN last.ret = Sectors
    /\ last.ret["transportation"] # ""

(***************************************************************************)
(* Properties of the confidences, checked under SpecConfidence.            *)
(***************************************************************************)
\* C22: every per-category confidence and the aggregated overall confidence
\* lie in [0,1] (hundredths: 0..100).
C22_ConfidenceInUnitInterval ==
    /\ (last.op \in ScoringOps /\ last.ret.raised = "none") =>
           last.ret.confidence \in 0..100
    /\ \A k \in DOMAIN agg.risks : agg.risks[k].confidence \in 0..100
    /\ agg.ret.level # "none" => agg.ret.confidence \in 0..100

\* population pressure has been scored with confidence 0.75, and four
\* assessments of confidence 0.9 with three of 0.7 aggregated to 0.81
C22_Witness ==
    /\ last.op = "calculate_population_pressure"
    /\ last.ret.raised = "none" /\ last.ret.confidence = 75
    /\ agg.ret.level # "none"
    /\ agg.risks["flood"].confidence = 90 /\ agg.risks["fire"].confidence = 70
    /\ agg.ret.confidence = 81

(***************************************************************************)
(* Properties of the cache, checked under SpecFresh.                       *)
(***************************************************************************)
\* C23: whenever is_data_stale() reports false, every entry of
\* data_cache["nasa_data"] was written no more than 1800 seconds earlier, and
\* get_nasa_data_for_location never serves an entry older than that.
C23_FreshWhenNotStale ==
    /\ ~is_data_stale_at(timed_cache, now) =>
          \A k \in DOMAIN timed_cache.nasa_data :
              (now - timed_cache.nasa_data[k].written_at) * 900 <= 1800
    /\ served.kind = "entry" => (served.at - served.written_at) * 900 <= 1800

(***************************************************************************)
(* Properties of the refreshes, checked under SpecRefresh and              *)
(* SpecRefreshFair.                                                        *)
(***************************************************************************)
\* the refresh of the location under key ends in this step
RefreshEnds(key) ==
    /\ key \in DOMAIN tasks /\ key \in DOMAIN tasks'
    /\ tasks[key] = "pending" /\ tasks'[key] = "done"

\* C24: after refresh_location_data completes, whether the fetches succeeded,
\* individually failed or the whole refresh raised, nasa_data has an entry
\* under the location's key with the five metric kinds, and the entries of
\* the other locations are as they were.
C24_RefreshLeavesCompleteEntry ==
    [][\A key \in refresh_tasks :
          RefreshEnds(key) =>
              /\ key \in DOMAIN timed_cache'.nasa_data
              /\ DOMAIN timed_cache'.nasa_data[key].data = MetricKinds
              /\ \A k \in DOMAIN timed_cache.nasa_data \ {key} :
                    /\ k \in DOMAIN timed_cache'.nasa_data
                    /\ timed_cache'.nasa_data[k] = timed_cache.nasa_data[k]]_vars

\* one location's refresh raised and left the fallback entry, another's lost
\* one fetch, and both entries are in the cache
C24_Witness ==
    /\ <<"LUANDA", "BELAS">> \in DOMAIN timed_cache.nasa_data
    /\ timed_cache.nasa_data[<<"LUANDA", "BELAS">>].data = fallback_data
    /\ <<"LUANDA", "">> \in DOMAIN timed_cache.nasa_data
    /\ timed_cache.nasa_data[<<"LUANDA", "">>].data["gpm"] = "FALLBACK"
    /\ timed_cache.nasa_data[<<"LUANDA", "">>].data["viirs"] = "service"

\* refresh_all_data has set last_updated
RefreshAllDone == timed_cache.last_updated # -1

\* C25: refresh_all_data terminates, and last_updated is set only once every
\* refresh task it started has finished, each location having its entry
\* whatever happened to the other tasks.
C25_RefreshAllCompletes ==
    /\ [](RefreshAllDone =>
             /\ DOMAIN tasks = refresh_tasks
             /\ \A k \in DOMAIN tasks : tasks[k] = "done"
             /\ \A k \in refresh_tasks : k \in DOMAIN timed_cache.nasa_data)
    /\ <>RefreshAllDone

\* last_updated is set after a refresh in which one task raised and another
\* succeeded
C25_Witness ==
    /\ RefreshAllDone
    /\ timed_cache.nasa_data[<<"LUANDA", "BELAS">>].data = fallback_data
    /\ timed_cache.nasa_data[<<"BENGUELA", "">>].data["gpm"] = "service"

(***************************************************************************)
(* Properties of the locations the dashboard endpoints accept, checked     *)
(* under SpecDash.                                                         *)
(***************************************************************************)
\* C26: every dashboard cached for a province and a non-empty municipality
\* has the municipality belonging to the province: GET
\* /api/{province}/{municipality} and POST /api/dashboard both reject a pair
\* that does not match.
C26_MunicipalityBelongsToProvince ==
    \A key \in data_cache.risk_assessments \cup data_cache.nasa_data :
        key[2] # "" =>
            /\ key[2] \in municipalities
            /\ Municipality(key[2]).province = key[1]

(***************************************************************************)
(* Properties of the alerts and the seasons, checked under SpecAlerts.     *)
(***************************************************************************)
HighAlertTypes == {"HIGH_RISK_AREA"} \cup {HighRiskType(k) : k \in RiskTypeSet}

\* C27: every alert of type HIGH_<CATEGORY>_RISK or HIGH_RISK_AREA that
\* get_location_alerts returns has severity HIGH or CRITICAL, total_alerts is
\* the length of active_alerts and critical_alerts is at most total_alerts.
C27_HighAlertsAreCritical ==
    last.op = "get_location_alerts" =>
        /\ \A i \in 1..Len(last.ret.active_alerts) :
              last.ret.active_alerts[i].type \in HighAlertTypes =>
                  last.ret.active_alerts[i].severity \in {"HIGH", "CRITICAL"}
        /\ last.ret.total_alerts = Len(last.ret.active_alerts)
        /\ last.ret.critical_alerts <= last.ret.total_alerts

\* C28: every month has exactly one season in each table, and the dashboard
\* calls a month RAINY_SEASON exactly when the data service lists it in
\* rainy_season, DRY_SEASON exactly when it lists it in dry_season.
C28_SeasonsAgree ==
    last.op = "get_current_season" =>
        /\ last.ret \in {"RAINY_SEASON", "DRY_SEASON", "TRANSITION_SEASON"}
        /\ last.rainy # last.dry
        /\ (last.ret = "RAINY_SEASON") <=> last.rainy
        /\ (last.ret = "DRY_SEASON") <=> last.dry

(***************************************************************************)
(* Properties of the listings and the routes, checked under SpecRoutes.    *)
(***************************************************************************)
Range(seq) == {seq[i] : i \in 1..Len(seq)}

\* C29: for every province the municipalities whose province field names it
\* are the municipalities its entry of the province table lists and the
\* municipality table holds, and every municipality's province is a key of
\* the province table.
C29_ListingsAgree ==
    last.op = "get_municipalities_by_province" =>
        /\ Range(last.ret) = Range(last.geo)
        /\ \A i \in 1..Len(MunicipalityTable) :
              MunicipalityTable[i].province \in DOMAIN provinces

\* both listings of BENGUELA hold its two municipalities
C29_Witness ==
    /\ last.op = "get_municipalities_by_province"
    /\ last.args = <<"BENGUELA">>
    /\ Range(last.ret) = {"BENGUELA_CITY", "LOBITO"}
    /\ Range(last.geo) = {"BENGUELA_CITY", "LOBITO"}

\* the handler written for a fixed path under /api
Dedicated(path) ==
    CASE path = <<"api", "municipalities">> -> "get_all_municipalities"
      [] path = <<"api", "provinces">> -> "get_all_provinces"
      [] path = <<"api", "status">> -> "get_system_status"

\* C30: a GET of /api/municipalities, /api/provinces or /api/status is
\* handled by its own handler, never by the route /api/{province}
\* registered before it.
C30_FixedPathsReachTheirHandlers ==
    (/\ last.op = "request"
     /\ last.args[1] = "GET"
     /\ last.args[2] \in {<<"api", "municipalities">>, <<"api", "provinces">>,
                          <<"api", "status">>})
        => last.ret = Dedicated(last.args[2])

=============================================================================
